---- MODULE Spec2Model ----
(***************************************************************************)
(* A model of the fork-maintenance scripts: the CODEOWNERS matcher         *)
(* (scripts/utils/codeowners.py) and the rename / version-gating parts of  *)
(* the rebase pipeline (scripts/slipstream/slipstream.py).                 *)
(*                                                                         *)
(* Python strings are modelled as sequences of one-character strings, so   *)
(* that prefix tests, globbing and path normalisation are computed the way *)
(* the code computes them.  An optional value (None or a value) is a       *)
(* sequence of length 0 or 1.                                              *)
(***************************************************************************)
EXTENDS Integers, Sequences, FiniteSets, TLC

VARIABLES pm, co, at, rn, vg, sl, cp, tc, cr, ed, pl, gp, ex, cl
vars == <<pm, co, at, rn, vg, sl, cp, tc, cr, ed, pl, gp, ex, cl>>

(***************************************************************************)
(* Bounds of the model.                                                    *)
(***************************************************************************)
MaxPathLen == 4
MaxPatLen == 3
MaxLines == 3
MaxDirs == 3
MaxRuleLines == 2
MaxPatterns == 2
MaxNameLen == 3
MaxMajor == 2
MaxLinks == 1
MaxCommits == 3

(***************************************************************************)
(* Strings.                                                                *)
(***************************************************************************)
None == <<>>

Some(x) == <<x>>

StringsUpTo(chars, n) == UNION {[1..k -> chars] : k \in 0..n}

\* str.startswith
StartsWith(s, prefix) ==
  /\ Len(prefix) <= Len(s)
  /\ SubSeq(s, 1, Len(prefix)) = prefix

\* str.replace(key, value) for a non-empty key
RECURSIVE str_replace(_, _, _)
str_replace(s, key, value) ==
  IF s = <<>> THEN <<>>
  ELSE IF StartsWith(s, key)
       THEN value \o str_replace(SubSeq(s, Len(key) + 1, Len(s)), key, value)
       ELSE <<Head(s)>> \o str_replace(Tail(s), key, value)

\* "key in str"
Contains(s, key) ==
  \E i \in 1..(Len(s) - Len(key) + 1) : SubSeq(s, i, i + Len(key) - 1) = key

\* a mapping function of the shape of renamed_folders_mapping_func, for a premap
\* of one entry
renamed_folders_mapping_func(premap, str) ==
  IF Contains(str, premap.key) THEN str_replace(str, premap.key, premap.value) ELSE str

\* "if mapping_func: x = mapping_func(x)" for an optional mapping function
apply_mapping(mapping_func, x) ==
  IF mapping_func = None THEN x ELSE renamed_folders_mapping_func(mapping_func[1], x)

\* str.lstrip("/")
RECURSIVE LStripSlash(_)
LStripSlash(s) ==
  IF s # <<>> /\ Head(s) = "/" THEN LStripSlash(Tail(s)) ELSE s

\* str.rstrip("/")
RECURSIVE RStripSlash(_)
RStripSlash(s) ==
  IF s # <<>> /\ s[Len(s)] = "/" THEN RStripSlash(SubSeq(s, 1, Len(s) - 1)) ELSE s

\* str.split("/"): the components between slashes, empty ones included
RECURSIVE SplitFrom(_, _, _)
SplitFrom(s, start, i) ==
  IF i > Len(s) THEN <<SubSeq(s, start, Len(s))>>
  ELSE IF s[i] = "/"
       THEN <<SubSeq(s, start, i - 1)>> \o SplitFrom(s, i + 1, i + 1)
       ELSE SplitFrom(s, start, i + 1)

SplitSlash(s) == SplitFrom(s, 1, 1)

\* "/".join(comps)
RECURSIVE JoinSlash(_)
JoinSlash(comps) ==
  IF comps = <<>> THEN <<>>
  ELSE IF Len(comps) = 1 THEN comps[1]
  ELSE comps[1] \o <<"/">> \o JoinSlash(Tail(comps))

\* the component loop of posixpath.normpath
RECURSIVE NormComps(_, _, _)
NormComps(comps, new_comps, initial_slashes) ==
  IF comps = <<>> THEN new_comps
  ELSE LET comp == Head(comps)
           rest == Tail(comps)
       IN  IF comp = <<>> \/ comp = <<".">>
           THEN NormComps(rest, new_comps, initial_slashes)
           ELSE IF \/ comp # <<".", ".">>
                   \/ (initial_slashes = 0 /\ new_comps = <<>>)
                   \/ (new_comps # <<>> /\ new_comps[Len(new_comps)] = <<".", ".">>)
                THEN NormComps(rest, Append(new_comps, comp), initial_slashes)
                ELSE IF new_comps # <<>>
                     THEN NormComps(rest, SubSeq(new_comps, 1, Len(new_comps) - 1), initial_slashes)
                     ELSE NormComps(rest, new_comps, initial_slashes)

\* os.path.normpath (POSIX)
normpath(path) ==
  IF path = <<>> THEN <<".">>
  ELSE LET initial_slashes ==
             IF ~StartsWith(path, <<"/">>) THEN 0
             ELSE IF StartsWith(path, <<"/", "/">>) /\ ~StartsWith(path, <<"/", "/", "/">>)
                  THEN 2 ELSE 1
           joined == JoinSlash(NormComps(SplitSlash(path), <<>>, initial_slashes))
           out == [i \in 1..initial_slashes |-> "/"] \o joined
       IN  IF out = <<>> THEN <<".">> ELSE out

\* fnmatch.fnmatch on POSIX: the whole name against the glob; "*" is any run of
\* characters ("/" included), "?" any one character, anything else itself.
RECURSIVE fnmatch(_, _)
fnmatch(name, pat) ==
  IF pat = <<>> THEN name = <<>>
  ELSE IF Head(pat) = "*"
       THEN fnmatch(name, Tail(pat)) \/ (name # <<>> /\ fnmatch(Tail(name), pat))
       ELSE IF Head(pat) = "?"
            THEN name # <<>> /\ fnmatch(Tail(name), Tail(pat))
            ELSE name # <<>> /\ Head(name) = Head(pat) /\ fnmatch(Tail(name), Tail(pat))

(***************************************************************************)
(* CodeOwners.match_pattern                                                *)
(***************************************************************************)
match_pattern_rooted_everywhere(path, pattern) ==
  fnmatch(normpath(RStripSlash(path)), RStripSlash(LStripSlash(pattern)))

match_pattern(path, pattern) ==
  LET pat == IF StartsWith(pattern, <<"/">>)
             THEN LStripSlash(pattern)
             ELSE <<"*", "*", "/">> \o pattern
  IN  fnmatch(normpath(RStripSlash(path)), RStripSlash(pat))

\* path or pattern with no glob character in it
IsWildcardFree(s) == \A i \in 1..Len(s) : s[i] \notin {"*", "?", "["}

\* a relative path of one or more ordinary segments: no empty, "." or ".." segment
IsPlainRelPath(s) ==
  /\ s # <<>>
  /\ IsWildcardFree(s)
  /\ \A i \in 1..Len(SplitSlash(s)) :
       SplitSlash(s)[i] \notin {<<>>, <<".">>, <<".", ".">>}

\* path = x + "/" + p for some non-empty x
HasPrefixBefore(path, p) ==
  /\ Len(path) >= Len(p) + 2
  /\ SubSeq(path, Len(path) - Len(p), Len(path)) = <<"/">> \o p

PrefixBefore(path, p) == SubSeq(path, 1, Len(path) - Len(p) - 1)

(***************************************************************************)
(* Calls of match_pattern on bounded inputs.                               *)
(***************************************************************************)
PathChars == {"a", "/", "."}

PatternChars == {"a", "/", "*"}

ExamplePaths ==
  { <<"a", "/", "b", "/", "c">>,
    <<"x", "/", "a", "/", "b", "/", "c">>,
    <<"f", "o", "o", "/", "b", "a", "r", ".", "r", "s">> }

ExamplePatterns ==
  { <<"/", "a", "/", "b", "/", "c">>,
    <<"a", "/", "b", "/", "c">>,
    <<"f", "o", "o", "/", "*", ".", "r", "s">>,
    <<"*", ".", "r", "s">> }

PathInputs == StringsUpTo(PathChars, MaxPathLen) \cup ExamplePaths

PatternInputs == StringsUpTo(PatternChars, MaxPatLen) \cup ExamplePatterns

InitPattern ==
  /\ pm \in [pc : {"call"}, path : PathInputs, pattern : PatternInputs, matched : {FALSE}]
  /\ co = [pc |-> "idle"]
  /\ at = [pc |-> "idle"]
  /\ rn = [pc |-> "idle"]
  /\ vg = [pc |-> "idle"]
  /\ sl = [pc |-> "idle"]
  /\ cp = [pc |-> "idle"]
  /\ tc = [pc |-> "idle"]
  /\ cr = [pc |-> "idle"]
  /\ ed = [pc |-> "idle"]
  /\ pl = [pc |-> "idle"]
  /\ gp = [pc |-> "idle"]
  /\ ex = [pc |-> "idle"]
  /\ cl = [pc |-> "idle"]

MatchPatternCall ==
  /\ pm.pc = "call"
  /\ pm' = [pm EXCEPT !.pc = "done", !.matched = match_pattern(pm.path, pm.pattern)]
  /\ UNCHANGED <<co, at, rn, vg, sl, cp, tc, cr, ed, pl, gp, ex, cl>>

NextPattern == MatchPatternCall

SpecPattern == InitPattern /\ [][NextPattern]_vars

\* C2 (as stated): a rooted pattern "/"+p matches the wildcard-free path p and no
\* x+"/"+p with x any non-empty string, while the unrooted pattern p matches x+"/"+p.
C2_RootingAnyPrefix ==
  pm.pc = "done" =>
    /\ (StartsWith(pm.pattern, <<"/">>) /\ IsPlainRelPath(Tail(pm.pattern))) =>
         /\ pm.path = Tail(pm.pattern) => pm.matched
         /\ HasPrefixBefore(pm.path, Tail(pm.pattern)) => ~pm.matched
    /\ (IsPlainRelPath(pm.pattern) /\ HasPrefixBefore(pm.path, pm.pattern)) => pm.matched

\* C2 (amended): a rooted pattern "/"+p matches the plain relative path p and no
\* x+"/"+p where the prefix x is itself made of ordinary path segments (no empty,
\* "." or ".." segment), while the unrooted pattern p matches every such x+"/"+p.
C2_PatternRooting ==
  pm.pc = "done" =>
    /\ (StartsWith(pm.pattern, <<"/">>) /\ IsPlainRelPath(Tail(pm.pattern))) =>
         /\ pm.path = Tail(pm.pattern) => pm.matched
         /\ ( /\ HasPrefixBefore(pm.path, Tail(pm.pattern))
              /\ IsPlainRelPath(PrefixBefore(pm.path, Tail(pm.pattern))) ) => ~pm.matched
    /\ ( /\ IsPlainRelPath(pm.pattern)
         /\ HasPrefixBefore(pm.path, pm.pattern)
         /\ IsPlainRelPath(PrefixBefore(pm.path, pm.pattern)) ) => pm.matched

C2_Witness ==
  /\ pm.pc = "done"
  /\ pm.pattern = <<"/", "a">>
  /\ pm.path = <<"a", "/", "a">>
  /\ ~pm.matched

\* C3: an unrooted wildcard-free pattern p matches at any depth, depth zero included:
\* it matches the path p itself as well as every x+"/"+p.
C3_UnrootedAnyDepth ==
  (pm.pc = "done" /\ IsPlainRelPath(pm.pattern)) =>
    /\ pm.path = pm.pattern => pm.matched
    /\ ( /\ HasPrefixBefore(pm.path, pm.pattern)
         /\ IsPlainRelPath(PrefixBefore(pm.path, pm.pattern)) ) => pm.matched

(***************************************************************************)
(* CodeOwners.__init__ and CodeOwners.match_owners_for_path                *)
(*                                                                         *)
(* A line of the rules file is the sequence of its whitespace-separated    *)
(* tokens (line.strip().split()); a blank line has none.                   *)
(***************************************************************************)
OwnerA == <<"@", "A">>

OwnerB == <<"@", "B">>

Star == <<"*">>

\* "not line or line.startswith('#')"
IsSkippedLine(line) == line = <<>> \/ StartsWith(line[1], <<"#">>)

PatternWithOwners(pattern, owners) == [pattern |-> pattern, owners |-> owners]

\* self.patterns.insert(0, ...) / a rule list that keeps declaration order
AppendRule(patterns, rule) == Append(patterns, rule)

InsertRule(patterns, rule) == <<rule>> \o patterns

\* the body of the "for line in file" loop, for one line / with the pattern mapped
\* before it is compared with the wildcard
ReadLineInto_mapping_first(self, line) ==
  IF IsSkippedLine(line)
  THEN self
  ELSE LET glob_pattern == apply_mapping(self.pattern_mapping_func, line[1])
           owners == Tail(line)
       IN  IF glob_pattern = Star
           THEN [self EXCEPT !.default_owners = Some(owners)]
           ELSE [self EXCEPT !.patterns =
                   InsertRule(self.patterns, PatternWithOwners(glob_pattern, owners))]

ReadLineInto(self, line) ==
  IF IsSkippedLine(line)
  THEN self
  ELSE LET glob_pattern == line[1]
           owners == Tail(line)
       IN  IF glob_pattern = Star
           THEN [self EXCEPT !.default_owners = Some(owners)]
           ELSE [self EXCEPT !.patterns =
                   InsertRule(self.patterns,
                     PatternWithOwners(apply_mapping(self.pattern_mapping_func, glob_pattern),
                                       owners))]

\* the "for pattern_with_owners in self.patterns" scan: the first match, or None
RECURSIVE FirstMatch(_, _)
FirstMatch(patterns, path) ==
  IF patterns = <<>> THEN None
  ELSE IF match_pattern(path, Head(patterns).pattern)
       THEN Some(Head(patterns).owners)
       ELSE FirstMatch(Tail(patterns), path)

\* Python truth value of self.default_owners: neither None nor an empty list
Truthy(opt) == opt # None /\ opt[1] # <<>>

\* "if self.path_mapping_func: path = self.path_mapping_func(path)": the string the
\* rules are matched against
mapped_lookup_path(self, path) == apply_mapping(self.path_mapping_func, path)

match_owners_for_path_default_always(self, path, match_default) ==
  LET found == FirstMatch(self.patterns, mapped_lookup_path(self, path))
  IN  IF found # None THEN found
      ELSE IF Truthy(self.default_owners) THEN self.default_owners
      ELSE None

match_owners_for_path(self, path, match_default) ==
  LET found == FirstMatch(self.patterns, mapped_lookup_path(self, path))
  IN  IF found # None THEN found
      ELSE IF match_default /\ Truthy(self.default_owners) THEN self.default_owners
      ELSE None

LineInputs ==
  { <<>>,
    << <<"#">>, <<"x">> >>,
    << Star, OwnerA >>,
    << Star >>,
    << <<"/", "a">>, OwnerA >>,
    << <<"/", "a">>, OwnerB >>,
    << <<"a">>, OwnerB >>,
    << <<"/", "a", "/", "*">>, OwnerA, OwnerB >>,
    << <<"*", ".", "r", "s">>, OwnerA >>,
    << <<"f", "o", "o", "/", "*", ".", "r", "s">>, OwnerB >>,
    << <<"/", "f", "o", "o", "/", "*", ".", "r", "s">>, OwnerB >> }

\* the pattern mapping functions a caller may pass: none, a folder rename, and one
\* that rewrites the wildcard character
PatternMappingInputs ==
  { None,
    Some([key |-> <<"a">>, value |-> <<"b">>]),
    Some([key |-> <<"*">>, value |-> <<"a">>]) }

LookupPaths ==
  { <<"a">>,
    <<"a", "/", "b">>,
    <<"b", "/", "a">>,
    <<"b">>,
    <<"f", "o", "o", "/", "b", "a", "r", ".", "r", "s">> }

Idle == [pc |-> "idle"]

InitOwners ==
  /\ co \in [pc : {"load"}, file : StringsUpTo(LineInputs, MaxLines), idx : {1},
             path_mapping_func : {None}, pattern_mapping_func : PatternMappingInputs,
             patterns : {<<>>}, default_owners : {None},
             path : {<<>>}, match_default : {FALSE}, result : {None}]
  /\ pm = Idle
  /\ at = Idle
  /\ rn = Idle
  /\ vg = Idle
  /\ sl = Idle
  /\ cp = Idle
  /\ tc = Idle
  /\ cr = Idle
  /\ ed = Idle
  /\ pl = Idle
  /\ gp = Idle
  /\ ex = Idle
  /\ cl = Idle

\* CodeOwners.__init__: one iteration of the loop over the file's lines
ReadLine ==
  /\ co.pc = "load"
  /\ co.idx <= Len(co.file)
  /\ co' = [ReadLineInto(co, co.file[co.idx]) EXCEPT !.idx = co.idx + 1]
  /\ UNCHANGED <<pm, at, rn, vg, sl, cp, tc, cr, ed, pl, gp, ex, cl>>

\* CodeOwners.__init__ returns: the index is built and immutable from here on
EndOfFile ==
  /\ co.pc = "load"
  /\ co.idx > Len(co.file)
  /\ co' = [co EXCEPT !.pc = "ready"]
  /\ UNCHANGED <<pm, at, rn, vg, sl, cp, tc, cr, ed, pl, gp, ex, cl>>

\* a call of match_owners_for_path on the loaded index
Lookup ==
  /\ co.pc = "ready"
  /\ \E path \in LookupPaths, match_default \in BOOLEAN :
       co' = [co EXCEPT !.pc = "done", !.path = path, !.match_default = match_default,
                        !.result = match_owners_for_path(co, path, match_default)]
  /\ UNCHANGED <<pm, at, rn, vg, sl, cp, tc, cr, ed, pl, gp, ex, cl>>

NextOwners == ReadLine \/ EndOfFile \/ Lookup

SpecOwners == InitOwners /\ [][NextOwners]_vars

\* the lines of the file that declare a stored (non-wildcard) rule matching the path
MatchingLines(file, path) ==
  { i \in 1..Len(file) :
      /\ ~IsSkippedLine(file[i])
      /\ file[i][1] # Star
      /\ match_pattern(path, apply_mapping(co.pattern_mapping_func, file[i][1])) }

\* the lines of the file that declare default owners
StarLines(file) ==
  { i \in 1..Len(file) : ~IsSkippedLine(file[i]) /\ file[i][1] = Star }

MaxOf(S) == CHOOSE m \in S : \A x \in S : x <= m

\* C1: a lookup returns the owners of the last-declared non-wildcard rule whose
\* pattern matches the path, however many earlier-declared rules match as well.
C1_LastMatchWins ==
  (co.pc = "done" /\ MatchingLines(co.file, co.path) # {}) =>
    co.result = Some(Tail(co.file[MaxOf(MatchingLines(co.file, co.path))]))

C1_Witness ==
  /\ co.pc = "done"
  /\ \E i, j \in MatchingLines(co.file, co.path) :
       /\ i < j
       /\ Tail(co.file[i]) # Tail(co.file[j])
       /\ j = MaxOf(MatchingLines(co.file, co.path))
       /\ co.result = Some(Tail(co.file[j]))

RuleLines(file) == SelectSeq(file, LAMBDA line : ~IsSkippedLine(line) /\ line[1] # Star)

\* C23: once the file is loaded, no "*" line is among the stored rules and none was
\* given to pattern_mapping_func: the default owners are the owners of the last "*"
\* line (None without one), and the rule list holds exactly the lines that are not
\* blank, not comments and not "*" lines, in reverse declaration order, each with
\* its pattern mapped.
C23_WildcardAtLoad ==
  co.pc \in {"ready", "done"} =>
    /\ co.default_owners =
         IF StarLines(co.file) = {} THEN None
         ELSE Some(Tail(co.file[MaxOf(StarLines(co.file))]))
    /\ Len(co.patterns) = Len(RuleLines(co.file))
    /\ \A i \in 1..Len(co.patterns) :
         LET line == RuleLines(co.file)[Len(co.patterns) + 1 - i]
         IN  co.patterns[i] =
               PatternWithOwners(apply_mapping(co.pattern_mapping_func, line[1]), Tail(line))

C23_Witness ==
  /\ co.pc = "ready"
  /\ co.pattern_mapping_func # None
  /\ apply_mapping(co.pattern_mapping_func, Star) # Star
  /\ Cardinality(StarLines(co.file)) = 2
  /\ Tail(co.file[MaxOf(StarLines(co.file))]) # co.default_owners
  /\ co.default_owners = Some(<<>>)
  /\ Len(co.patterns) = 1
  /\ co.patterns[1].pattern # RuleLines(co.file)[1][1]

(***************************************************************************)
(* CodeOwners.match_paths_for_owners                                       *)
(*                                                                         *)
(* A directory is named by its path relative to root_folder, "." for the   *)
(* root itself (os.path.relpath); a tree is the set of its directories.    *)
(* SpecAttribution is of a CodeOwners built without mapping functions, as  *)
(* the script's own entry point builds it; SpecMappedAttribution is of one *)
(* built with a path_mapping_func, as compare.py builds it.                *)
(***************************************************************************)
Dot == <<".">>

ignored_dirs_patterns ==
  { <<"/", ".", "c", "a", "r", "g", "o", "/">>,
    <<"/", ".", "c", "o", "n", "f", "i", "g", "/">>,
    <<"/", ".", "g", "i", "t", "/">>,
    <<"/", ".", "p", "n", "p", "m", "_", "s", "t", "o", "r", "e", "/">>,
    <<"/", ".", "v", "s", "c", "o", "d", "e", "/">>,
    <<"/", "c", "h", "o", "c", "o", "l", "a", "t", "e", "y", "/">>,
    <<"/", "t", "a", "r", "g", "e", "t", "/">> }

is_ignored_dir(path) ==
  \E ignored_dir \in ignored_dirs_patterns : match_pattern(path, ignored_dir)

\* os.path.relpath(os.path.join(root, subfolder), root_folder)
relpath_of(root, subfolder) ==
  IF root = Dot THEN subfolder ELSE root \o <<"/">> \o subfolder

\* get_relative_path_to_root_folder, for a path already made relative
get_relative_path_to_root_folder(self, relative) ==
  apply_mapping(self.path_mapping_func, relative)

\* os.path.dirname of a relative path, "." for a top-level entry
ParentOf(path) ==
  IF \A i \in 1..Len(path) : path[i] # "/" THEN Dot
  ELSE LET k == CHOOSE i \in 1..Len(path) :
                  path[i] = "/" /\ \A j \in (i + 1)..Len(path) : path[j] # "/"
       IN  SubSeq(path, 1, k - 1)

\* os.path.basename of a relative path
NameOf(path) ==
  IF ParentOf(path) = Dot /\ (\A i \in 1..Len(path) : path[i] # "/") THEN path
  ELSE SubSeq(path, Len(ParentOf(path)) + 2, Len(path))

\* the subdirectory names os.walk lists for a directory
SubfoldersOf(tree, root) == { NameOf(d) : d \in { e \in tree : ParentOf(e) = root } }

\* the orders in which a directory listing may come (os.scandir gives no order)
ListingsOf(S) ==
  { f \in [1..Cardinality(S) -> S] : \A i, j \in 1..Cardinality(S) : i # j => f[i] # f[j] }

\* Python truth value of a lookup result: neither None nor an empty owner list
TruthyOwners(opt) == opt # None /\ opt[1] # <<>>

\* any(matched_owner in owners for matched_owner in matched_owners)
AnyIn(matched_owners, owners) ==
  \E i \in 1..Len(matched_owners) : matched_owners[i] \in owners

\* matched_relative_paths_filtered: a dict, kept as its items in insertion order
KeysOf(d) == { d[i].path : i \in 1..Len(d) }

\* d.setdefault(path, []).extend(owners)
ExtendAt(d, path, owners) ==
  IF path \in KeysOf(d)
  THEN [i \in 1..Len(d) |->
          IF d[i].path = path THEN [d[i] EXCEPT !.owners = @ \o owners] ELSE d[i]]
  ELSE Append(d, [path |-> path, owners |-> owners])

RemoveFrom(dirs, subfolder) == SelectSeq(dirs, LAMBDA x : x # subfolder)

\* dirs.remove(subfolder) after a direct match / forgetting to stop the descent
dirs_kept_after_match(dirs, subfolder) == dirs

dirs_after_match(dirs, subfolder) == RemoveFrom(dirs, subfolder)

\* the record of one call of match_owners_for_path: the folder (relative to the
\* root folder) and the string the rules were matched against for it
Handed(self, root, subfolder) ==
  [folder |-> relpath_of(root, subfolder),
   path |-> mapped_lookup_path(self,
              get_relative_path_to_root_folder(self, relpath_of(root, subfolder)))]

\* the "for subfolder in list(dirs)" loop of the first pass, for one walked root;
\* acc carries dirs, matched_relative_paths_all, matched_relative_paths_filtered
\* and unmatched_directories
RECURSIVE first_pass_subfolders(_, _, _, _, _)
first_pass_subfolders(self, owners, root, todo, acc) ==
  IF todo = <<>> THEN acc
  ELSE
    LET subfolder == Head(todo)
        relative_subfolder ==
          get_relative_path_to_root_folder(self, relpath_of(root, subfolder))
        matched_owners == match_owners_for_path(self, relative_subfolder, FALSE)
        looked_up == [acc EXCEPT !.handed = @ \cup {Handed(self, root, subfolder)}]
        next ==
          IF is_ignored_dir(relative_subfolder)
          THEN [acc EXCEPT !.dirs = RemoveFrom(acc.dirs, subfolder)]
          ELSE IF TruthyOwners(matched_owners)
               THEN IF AnyIn(matched_owners[1], owners)
                    THEN [looked_up EXCEPT
                            !.all = @ \cup {relative_subfolder},
                            !.filtered = ExtendAt(@, relative_subfolder, matched_owners[1]),
                            !.dirs = dirs_after_match(acc.dirs, subfolder)]
                    ELSE [looked_up EXCEPT
                            !.all = @ \cup {relative_subfolder},
                            !.dirs = RemoveFrom(acc.dirs, subfolder)]
               ELSE [looked_up EXCEPT !.unmatched = Append(@, <<root, subfolder>>)]
    IN  first_pass_subfolders(self, owners, root, Tail(todo), next)

\* has_matching_subdirectory (str.startswith on the relative paths)
has_matching_subdirectory(all, relative_subfolder) ==
  \E matched_relative_path \in all :
    /\ StartsWith(matched_relative_path, relative_subfolder)
    /\ matched_relative_path # relative_subfolder

\* has_matching_parent (str.startswith on the relative paths) / the check left out
has_matching_parent_never(all, relative_subfolder) == FALSE

has_matching_parent(all, relative_subfolder) ==
  \E matched_relative_path \in all :
    /\ StartsWith(relative_subfolder, matched_relative_path)
    /\ matched_relative_path # relative_subfolder

\* the body of the second pass for one deferred (root, subfolder)
second_pass_entry(self, owners, entry, acc) ==
  LET relative_root == get_relative_path_to_root_folder(self, entry[1])
      relative_subfolder ==
        get_relative_path_to_root_folder(self, relpath_of(entry[1], entry[2]))
      default_owners == match_owners_for_path(self, relative_subfolder, TRUE)
      looked_up == [acc EXCEPT !.handed = @ \cup {Handed(self, entry[1], entry[2])}]
  IN  IF is_ignored_dir(relative_root) THEN acc
      ELSE IF \/ has_matching_subdirectory(acc.all, relative_subfolder)
              \/ has_matching_parent(acc.all, relative_subfolder)
           THEN acc
           ELSE IF TruthyOwners(default_owners) /\ AnyIn(default_owners[1], owners)
                THEN [looked_up EXCEPT
                        !.all = @ \cup {relative_subfolder},
                        !.filtered = ExtendAt(@, relative_subfolder, default_owners[1])]
                ELSE looked_up

\* CodeOwners.__init__ run over a whole file
RECURSIVE LoadFile(_, _)
LoadFile(self, file) ==
  IF file = <<>> THEN self ELSE LoadFile(ReadLineInto(self, Head(file)), Tail(file))

\* the index before the first line is read, built without mapping functions
NoRules ==
  [patterns |-> <<>>, default_owners |-> None,
   path_mapping_func |-> None, pattern_mapping_func |-> None]

DirUniverse ==
  { <<"a">>,
    <<"a", "b">>,
    <<"b">>,
    <<"a", "/", "b">>,
    <<"a", "/", "b", "/", "a">>,
    <<"a", "b", "/", "a">>,
    <<".", "g", "i", "t">>,
    <<".", "g", "i", "t", "/", "a">> }

TreeInputs ==
  { t \in SUBSET DirUniverse :
      /\ Cardinality(t) <= MaxDirs
      /\ \A d \in t : ParentOf(d) = Dot \/ ParentOf(d) \in t }

RuleLineInputs ==
  { << Star, OwnerA >>,
    << Star, OwnerB >>,
    << <<"/", "a">>, OwnerA >>,
    << <<"/", "a", "/", "*">>, OwnerB >>,
    << <<"b">>, OwnerA >>,
    << <<"/", "a", "b">> >> }

OwnerSetInputs == { {OwnerA}, {OwnerB} }

InitAttribution ==
  /\ \E tree \in TreeInputs, file \in StringsUpTo(RuleLineInputs, MaxRuleLines),
        owners \in OwnerSetInputs :
       at = [pc |-> "pass1", tree |-> tree, file |-> file, owners |-> owners,
             path_mapping_func |-> None, pattern_mapping_func |-> None,
             patterns |-> LoadFile(NoRules, file).patterns,
             default_owners |->
               LoadFile(NoRules, file).default_owners,
             stack |-> <<Dot>>, walked |-> {}, seen |-> {},
             all |-> {}, filtered |-> <<>>, unmatched |-> <<>>, handed |-> {}, idx |-> 1]
  /\ pm = Idle
  /\ co = Idle
  /\ rn = Idle
  /\ vg = Idle
  /\ sl = Idle
  /\ cp = Idle
  /\ tc = Idle
  /\ cr = Idle
  /\ ed = Idle
  /\ pl = Idle
  /\ gp = Idle
  /\ ex = Idle
  /\ cl = Idle

\* first pass: one iteration of "for root, dirs, _ in os.walk(root_folder)"
WalkStep ==
  /\ at.pc = "pass1"
  /\ at.stack # <<>>
  /\ \E root \in {Head(at.stack)} :
       \E dirs \in ListingsOf(SubfoldersOf(at.tree, root)) :
         \E acc \in { IF is_ignored_dir(get_relative_path_to_root_folder(at, root))
                      THEN [dirs |-> <<>>, all |-> at.all, filtered |-> at.filtered,
                            unmatched |-> at.unmatched, handed |-> at.handed]
                      ELSE first_pass_subfolders(at, at.owners, root, dirs,
                             [dirs |-> dirs, all |-> at.all, filtered |-> at.filtered,
                              unmatched |-> at.unmatched, handed |-> at.handed]) } :
           at' = [at EXCEPT
                    !.stack = [i \in 1..Len(acc.dirs) |-> relpath_of(root, acc.dirs[i])]
                              \o Tail(at.stack),
                    !.walked = @ \cup {root},
                    !.seen = @ \cup { relpath_of(root, dirs[i]) : i \in 1..Len(dirs) },
                    !.all = acc.all,
                    !.filtered = acc.filtered,
                    !.unmatched = acc.unmatched,
                    !.handed = acc.handed]
  /\ UNCHANGED <<pm, co, rn, vg, sl, cp, tc, cr, ed, pl, gp, ex, cl>>

\* os.walk is exhausted: the second pass starts
WalkDone ==
  /\ at.pc = "pass1"
  /\ at.stack = <<>>
  /\ at' = [at EXCEPT !.pc = "pass2"]
  /\ UNCHANGED <<pm, co, rn, vg, sl, cp, tc, cr, ed, pl, gp, ex, cl>>

\* second pass: one iteration of "for root, subfolder in unmatched_directories"
SecondPassStep ==
  /\ at.pc = "pass2"
  /\ at.idx <= Len(at.unmatched)
  /\ \E acc \in { second_pass_entry(at, at.owners, at.unmatched[at.idx],
                      [all |-> at.all, filtered |-> at.filtered, handed |-> at.handed]) } :
       at' = [at EXCEPT !.idx = @ + 1, !.all = acc.all, !.filtered = acc.filtered,
                        !.handed = acc.handed]
  /\ UNCHANGED <<pm, co, rn, vg, sl, cp, tc, cr, ed, pl, gp, ex, cl>>

\* return matched_relative_paths_filtered
ReturnFiltered ==
  /\ at.pc = "pass2"
  /\ at.idx > Len(at.unmatched)
  /\ at' = [at EXCEPT !.pc = "done"]
  /\ UNCHANGED <<pm, co, rn, vg, sl, cp, tc, cr, ed, pl, gp, ex, cl>>

NextAttribution == WalkStep \/ WalkDone \/ SecondPassStep \/ ReturnFiltered

SpecAttribution == InitAttribution /\ [][NextAttribution]_vars

\* the path mapping functions a caller may pass: a folder rename as compare.py's,
\* and a rename whose result contains the renamed name again
PathMappingInputs ==
  { Some([key |-> <<"a">>, value |-> <<"b">>]),
    Some([key |-> <<"a">>, value |-> <<"a", "b">>]) }

\* match_paths_for_owners on a CodeOwners built with a path_mapping_func
InitMappedAttribution ==
  /\ \E tree \in TreeInputs, file \in StringsUpTo(RuleLineInputs, MaxRuleLines),
        owners \in OwnerSetInputs, path_mapping_func \in PathMappingInputs :
       at = [pc |-> "pass1", tree |-> tree, file |-> file, owners |-> owners,
             path_mapping_func |-> path_mapping_func, pattern_mapping_func |-> None,
             patterns |-> LoadFile(NoRules, file).patterns,
             default_owners |-> LoadFile(NoRules, file).default_owners,
             stack |-> <<Dot>>, walked |-> {}, seen |-> {},
             all |-> {}, filtered |-> <<>>, unmatched |-> <<>>, handed |-> {}, idx |-> 1]
  /\ pm = Idle
  /\ co = Idle
  /\ rn = Idle
  /\ vg = Idle
  /\ sl = Idle
  /\ cp = Idle
  /\ tc = Idle
  /\ cr = Idle
  /\ ed = Idle
  /\ pl = Idle
  /\ gp = Idle
  /\ ex = Idle
  /\ cl = Idle

SpecMappedAttribution == InitMappedAttribution /\ [][NextAttribution]_vars

\* a is a strict path-ancestor of d (segment-wise)
IsAncestorPath(a, d) == StartsWith(d, a \o <<"/">>)

\* the folder has a direct (non-default) rule match whose owners meet the request
DirectlyMatchedFor(self, owners, d) ==
  /\ TruthyOwners(match_owners_for_path(self, d, FALSE))
  /\ AnyIn(match_owners_for_path(self, d, FALSE)[1], owners)

\* the default owners exist and meet the request
DefaultMeets(self, owners) ==
  /\ TruthyOwners(self.default_owners)
  /\ AnyIn(self.default_owners[1], owners)

\* C5: in the returned mapping no two folders are in an ancestor/descendant
\* relationship; in particular no default-attributed folder lies above or below
\* another folder of the result.
C5_OverlapFree ==
  at.pc = "done" =>
    \A k1 \in KeysOf(at.filtered), k2 \in KeysOf(at.filtered) : ~IsAncestorPath(k1, k2)

C5_Witness ==
  /\ at.pc = "done"
  /\ Cardinality(KeysOf(at.filtered)) >= 2
  /\ \E k \in KeysOf(at.filtered) :
       /\ ~DirectlyMatchedFor(at, at.owners, k)
       /\ \E i \in 1..Len(at.unmatched) :
            IsAncestorPath(k, get_relative_path_to_root_folder(at,
                                relpath_of(at.unmatched[i][1], at.unmatched[i][2])))

\* C6: with no direct rule match anywhere in the tree and default owners that meet
\* the request, the result is exactly the top-level subfolders of the root (those
\* the walk does not ignore), and never a nested folder.
C6_ShallowestDefaultOnly ==
  ( /\ at.pc = "done"
    /\ \A d \in at.tree : FirstMatch(at.patterns, d) = None
    /\ DefaultMeets(at, at.owners) ) =>
    KeysOf(at.filtered) = { d \in at.tree : ParentOf(d) = Dot /\ ~is_ignored_dir(d) }

\* C7: a listed folder whose directly matched owners meet the request is recorded in
\* the result, the walk never descends into it, and no descendant of it is in the
\* result, during the first pass and after the second.
C7_DirectMatchPruning ==
  at.pc \in {"pass1", "pass2", "done"} =>
    \A d \in at.seen :
      (DirectlyMatchedFor(at, at.owners, d) /\ ~is_ignored_dir(d)) =>
        /\ d \in KeysOf(at.filtered)
        /\ d \notin at.walked
        /\ \A i \in 1..Len(at.stack) : at.stack[i] # d
        /\ \A k \in KeysOf(at.filtered) : ~IsAncestorPath(d, k)

C7_Witness ==
  /\ at.pc = "done"
  /\ DefaultMeets(at, at.owners)
  /\ \E d \in KeysOf(at.filtered) :
       /\ DirectlyMatchedFor(at, at.owners, d)
       /\ \E e \in at.tree : IsAncestorPath(d, e)
       /\ KeysOf(at.filtered) = {d}

\* the deferred folder the second pass is about to handle
DeferredAt(i) ==
  get_relative_path_to_root_folder(at, relpath_of(at.unmatched[i][1], at.unmatched[i][2]))

\* C21: a deferred folder that no rule matches and whose default owners meet the
\* request is skipped by the second pass if and only if a folder of the all-matched
\* set is a strict descendant or a strict ancestor of it, segment by segment; a
\* sibling whose name merely starts with the same characters causes no skip.
C21_SegmentWiseConflict ==
  [][ ( /\ at.pc = "pass2"
        /\ at'.pc = "pass2"
        /\ at.idx <= Len(at.unmatched)
        /\ at'.idx = at.idx + 1
        /\ FirstMatch(at.patterns, DeferredAt(at.idx)) = None
        /\ DefaultMeets(at, at.owners) ) =>
      ( DeferredAt(at.idx) \notin KeysOf(at'.filtered)
        <=> \E m \in at.all : \/ IsAncestorPath(DeferredAt(at.idx), m)
                              \/ IsAncestorPath(m, DeferredAt(at.idx)) ) ]_vars

\* C22: every stored rule has a non-empty owner list, so a lookup that is not None
\* is a non-empty owner list, and a folder that a stored rule matches is never put
\* on the list of unmatched folders deferred to the second pass.
C22_RulesHaveOwners ==
  at.pc = "done" =>
    /\ \A i \in 1..Len(at.patterns) : at.patterns[i].owners # <<>>
    /\ \A d \in at.seen :
         match_owners_for_path(at, d, FALSE) # None =>
           match_owners_for_path(at, d, FALSE)[1] # <<>>
    /\ \A i \in 1..Len(at.unmatched) : FirstMatch(at.patterns, DeferredAt(i)) = None

\* C30: during folder attribution the path mapping is applied once per folder: the
\* string the rules are matched against for a folder is path_mapping_func applied a
\* single time to the folder's path relative to the root, and the keys of the result
\* are those once-mapped relative paths.
C30_MappedOnce ==
  at.pc = "done" =>
    /\ \A h \in at.handed : h.path = apply_mapping(at.path_mapping_func, h.folder)
    /\ KeysOf(at.filtered) \subseteq
         { apply_mapping(at.path_mapping_func, d) : d \in at.tree }

(***************************************************************************)
(* apply_path_renames: the rename of one file path                         *)
(*                                                                         *)
(* The regexes of the model are literal, non-empty character sequences:    *)
(* search is substring search and sub replaces the non-overlapping         *)
(* occurrences found from left to right, as re does for such a regex.      *)
(***************************************************************************)
\* regex.search(s) is not None
RegexSearch(regex, s) ==
  \E i \in 1..(Len(s) - Len(regex) + 1) : SubSeq(s, i, i + Len(regex) - 1) = regex

\* regex.sub(replacement, s)
RECURSIVE RegexSub(_, _, _)
RegexSub(regex, replacement, s) ==
  IF s = <<>> THEN <<>>
  ELSE IF StartsWith(s, regex)
       THEN replacement \o RegexSub(regex, replacement, SubSeq(s, Len(regex) + 1, Len(s)))
       ELSE <<Head(s)>> \o RegexSub(regex, replacement, Tail(s))

\* any(ignore.search(s) for ignore in pattern["ignore"]["files"])
IgnoredByPattern(pattern, s) ==
  \E i \in 1..Len(pattern.ignore) : RegexSearch(pattern.ignore[i], s)

\* the "for pattern in patterns" loop over new_path
RECURSIVE apply_rename_patterns(_, _)
apply_rename_patterns(patterns, new_path) ==
  IF patterns = <<>> THEN new_path
  ELSE IF IgnoredByPattern(Head(patterns), new_path)
       THEN apply_rename_patterns(Tail(patterns), new_path)
       ELSE apply_rename_patterns(Tail(patterns),
              RegexSub(Head(patterns).regex, Head(patterns).replacement, new_path))

\* "if new_path == file_path: continue" / the check left out
needs_move_always(file_path, new_path) == TRUE

needs_move(file_path, new_path) == new_path # file_path

RenamePattern(regex, replacement, ignore) ==
  [regex |-> regex, replacement |-> replacement, ignore |-> ignore]

RenamePatternInputs ==
  { RenamePattern(<<"a">>, <<"b">>, <<>>),
    RenamePattern(<<"b">>, <<"c">>, <<>>),
    RenamePattern(<<"a", "b">>, <<"b">>, <<>>),
    RenamePattern(<<"a">>, <<"c">>, << <<"b">> >>),
    RenamePattern(<<"b">>, <<"a">>, <<>>),
    RenamePattern(<<"a">>, <<"a", "a">>, <<>>) }

FileNameInputs == StringsUpTo({"a", "b"}, MaxNameLen) \ {<<>>}

InitRename ==
  /\ \E patterns \in StringsUpTo(RenamePatternInputs, MaxPatterns),
        name \in FileNameInputs, tracked \in BOOLEAN :
       rn = [pc |-> "run", patterns |-> patterns, run |-> 1, tracked |-> tracked,
             original |-> <<".", "/">> \o name,
             file_path |-> <<".", "/">> \o name,
             after_first |-> <<>>, moved |-> <<FALSE, FALSE>>, failed |-> FALSE]
  /\ pm = Idle
  /\ co = Idle
  /\ at = Idle
  /\ vg = Idle
  /\ sl = Idle
  /\ cp = Idle
  /\ tc = Idle
  /\ cr = Idle
  /\ ed = Idle
  /\ pl = Idle
  /\ gp = Idle
  /\ ex = Idle
  /\ cl = Idle

\* one run of apply_path_renames over the tree holding the file: the file is moved
\* with "git mv" when its path changes; an untracked file is skipped, and a tracked
\* file that git cannot move (onto itself) is fatal
RenameRun ==
  /\ rn.pc = "run"
  /\ \E new_path \in {apply_rename_patterns(rn.patterns, rn.file_path)} :
       \E moves \in {needs_move(rn.file_path, new_path) /\ rn.tracked
                       /\ new_path # rn.file_path} :
         \E fails \in {needs_move(rn.file_path, new_path) /\ rn.tracked
                         /\ new_path = rn.file_path} :
           rn' = [rn EXCEPT
                    !.file_path = IF moves THEN new_path ELSE @,
                    !.after_first = IF rn.run = 1
                                    THEN (IF moves THEN new_path ELSE rn.file_path)
                                    ELSE @,
                    !.moved = [@ EXCEPT ![rn.run] = moves],
                    !.failed = fails,
                    !.run = @ + 1,
                    !.pc = IF fails \/ rn.run = 2 THEN "done" ELSE "run"]
  /\ UNCHANGED <<pm, co, at, vg, sl, cp, tc, cr, ed, pl, gp, ex, cl>>

NextRename == RenameRun

SpecRename == InitRename /\ [][NextRename]_vars

\* no pattern's replacement text matches that pattern's own regex
NoSelfMatch(patterns) ==
  \A i \in 1..Len(patterns) : ~RegexSearch(patterns[i].regex, patterns[i].replacement)

\* the path contains no match of any pattern's regex: the target form
InTargetForm(patterns, path) ==
  \A i \in 1..Len(patterns) : ~RegexSearch(patterns[i].regex, path)

\* C8 (as stated): when no pattern's replacement matches its own regex, a second run
\* over the renamed tree changes no path and moves no file.
C8_IdempotentWhenNoSelfMatch ==
  (rn.pc = "done" /\ rn.run = 3 /\ NoSelfMatch(rn.patterns)) =>
    /\ rn.file_path = rn.after_first
    /\ ~rn.moved[2]

\* C8 (amended): once the renamed path is in the target form (no pattern's regex
\* matches it any more), a second run changes no path, moves no file and does not
\* fail.
C8_RenameIdempotence ==
  (rn.pc = "done" /\ rn.moved[1] /\ InTargetForm(rn.patterns, rn.after_first)) =>
    /\ rn.run = 3
    /\ rn.file_path = rn.after_first
    /\ ~rn.moved[2]
    /\ ~rn.failed

C8_Witness ==
  /\ rn.pc = "done"
  /\ rn.run = 3
  /\ Len(rn.patterns) >= 2
  /\ rn.moved[1]
  /\ InTargetForm(rn.patterns, rn.after_first)
  /\ rn.file_path = rn.after_first
  /\ ~rn.moved[2]

(***************************************************************************)
(* extract_sem_version and skip_entry_by_version                           *)
(*                                                                         *)
(* A version string is a sequence of tokens: a maximal run of digits (its  *)
(* number) or one other character.  A semantic version is the triple       *)
(* <<major, minor, patch>>.                                                *)
(***************************************************************************)
Num(n) == [num |-> n, chr |-> ""]

Chr(c) == [num |-> -1, chr |-> c]

IsNum(tok) == tok.num >= 0

IsDotTok(tok) == tok.num < 0 /\ tok.chr = "."

\* r"(\d+\.\d+\.\d+)" matches at token i
TripleAt(version_str, i) ==
  /\ i + 4 <= Len(version_str)
  /\ IsNum(version_str[i])
  /\ IsDotTok(version_str[i + 1])
  /\ IsNum(version_str[i + 2])
  /\ IsDotTok(version_str[i + 3])
  /\ IsNum(version_str[i + 4])

\* re.search + semver.Version.parse: the leftmost numeric triple, None for the
\* ValueError raised when there is none
extract_sem_version(version_str) ==
  IF \E i \in 1..Len(version_str) : TripleAt(version_str, i)
  THEN LET i == CHOOSE k \in 1..Len(version_str) :
                  /\ TripleAt(version_str, k)
                  /\ \A j \in 1..(k - 1) : ~TripleAt(version_str, j)
       IN  Some(<<version_str[i].num, version_str[i + 2].num, version_str[i + 4].num>>)
  ELSE None

\* semver.Version ordering: major, then minor, then patch
VersionLess(a, b) ==
  \/ a[1] < b[1]
  \/ (a[1] = b[1] /\ a[2] < b[2])
  \/ (a[1] = b[1] /\ a[2] = b[2] /\ a[3] < b[3])

\* "sem_version > max_sem_version" / an exclusive upper bound
version_exceeds_or_reaches(sem_version, max_sem_version) ==
  ~VersionLess(sem_version, max_sem_version)

version_exceeds(sem_version, max_sem_version) == VersionLess(max_sem_version, sem_version)

\* "not config_entry": the entry is None or an empty dict
IsEmptyEntry(config_entry) ==
  /\ ~config_entry.other_keys
  /\ config_entry.min_sem_version = None
  /\ config_entry.max_sem_version = None

\* the value of config_entry.get(key) is truthy: present and not the empty string
TruthyStr(opt) == opt # None /\ opt[1] # <<>>

\* skip_entry_by_version: [raised, skip]
skip_entry_by_version(sem_version, config_entry) ==
  IF IsEmptyEntry(config_entry) THEN [raised |-> FALSE, skip |-> FALSE]
  ELSE
    LET min_str == config_entry.min_sem_version
        max_str == config_entry.max_sem_version
    IN  IF TruthyStr(min_str) /\ extract_sem_version(min_str[1]) = None
        THEN [raised |-> TRUE, skip |-> FALSE]
        ELSE IF TruthyStr(min_str) /\ VersionLess(sem_version, extract_sem_version(min_str[1])[1])
        THEN [raised |-> FALSE, skip |-> TRUE]
        ELSE IF TruthyStr(max_str) /\ extract_sem_version(max_str[1]) = None
        THEN [raised |-> TRUE, skip |-> FALSE]
        ELSE IF TruthyStr(max_str) /\ version_exceeds(sem_version, extract_sem_version(max_str[1])[1])
        THEN [raised |-> FALSE, skip |-> TRUE]
        ELSE [raised |-> FALSE, skip |-> FALSE]

Minors == {29, 30, 31}

Patches == {0, 9}

VersionInputs == (1..MaxMajor) \X Minors \X Patches

\* the text "major.minor.patch"
VersionText(v) == <<Num(v[1]), Chr("."), Num(v[2]), Chr("."), Num(v[3])>>

\* a bound of a config entry: the key missing, an empty string, a string without a
\* version in it, or a version; "of" is the version it stands for, if any
BoundInputs ==
  { [text |-> None, of |-> None],
    [text |-> Some(<<>>), of |-> None],
    [text |-> Some(<<Num(1), Chr("."), Num(30)>>), of |-> None] }
  \cup { [text |-> Some(VersionText(v)), of |-> Some(v)] : v \in VersionInputs }

\* repository tags such as "mainnet-v1.30.0"
TagInputs ==
  { [text |-> <<Chr("v")>> \o VersionText(v), of |-> v] : v \in VersionInputs }

InitVersion ==
  /\ \E tag \in TagInputs, min \in BoundInputs, max \in BoundInputs, other \in BOOLEAN :
       vg = [pc |-> "resolve", repo_tag |-> tag.text, tag_of |-> tag.of,
             sem_version |-> None,
             config_entry |-> [other_keys |-> other, min_sem_version |-> min.text,
                               max_sem_version |-> max.text],
             min_of |-> min.of, max_of |-> max.of,
             invalid |-> (TruthyStr(min.text) /\ min.of = None)
                         \/ (TruthyStr(max.text) /\ max.of = None),
             raised |-> FALSE, skip |-> FALSE]
  /\ pm = Idle
  /\ co = Idle
  /\ at = Idle
  /\ rn = Idle
  /\ sl = Idle
  /\ cp = Idle
  /\ tc = Idle
  /\ cr = Idle
  /\ ed = Idle
  /\ pl = Idle
  /\ gp = Idle
  /\ ex = Idle
  /\ cl = Idle

\* sem_version = extract_sem_version(args.repo_tag)
ResolveVersion ==
  /\ vg.pc = "resolve"
  /\ vg' = [vg EXCEPT !.sem_version = extract_sem_version(vg.repo_tag), !.pc = "gate"]
  /\ UNCHANGED <<pm, co, at, rn, sl, cp, tc, cr, ed, pl, gp, ex, cl>>

\* a call of skip_entry_by_version for one overlay or patch entry
SkipEntryByVersion ==
  /\ vg.pc = "gate"
  /\ vg.sem_version # None
  /\ \E r \in {skip_entry_by_version(vg.sem_version[1], vg.config_entry)} :
       vg' = [vg EXCEPT !.raised = r.raised, !.skip = r.skip, !.pc = "done"]
  /\ UNCHANGED <<pm, co, at, rn, sl, cp, tc, cr, ed, pl, gp, ex, cl>>

NextVersion == ResolveVersion \/ SkipEntryByVersion

SpecVersion == InitVersion /\ [][NextVersion]_vars

\* major.minor.patch as one number (every component is below 100)
VersionRank(v) == v[1] * 10000 + v[2] * 100 + v[3]

\* C9: an entry is skipped if and only if the resolved version is strictly below
\* its min_sem_version or strictly above its max_sem_version, each bound optional
\* and inclusive; max 1.30.0 skips 1.31.0 and applies 1.29.9 and 1.30.0; an entry
\* without bounds is never skipped.
C9_VersionGating ==
  (vg.pc = "done" /\ ~vg.invalid) =>
    /\ ~vg.raised
    /\ vg.skip <=>
         \/ (vg.min_of # None /\ VersionRank(vg.tag_of) < VersionRank(vg.min_of[1]))
         \/ (vg.max_of # None /\ VersionRank(vg.tag_of) > VersionRank(vg.max_of[1]))
    /\ (vg.min_of = None /\ vg.max_of = <<<<1, 30, 0>>>>) =>
         /\ vg.tag_of = <<1, 31, 0>> => vg.skip
         /\ vg.tag_of \in {<<1, 29, 9>>, <<1, 30, 0>>} => ~vg.skip
    /\ (vg.min_of = None /\ vg.max_of = None) => ~vg.skip

C9_Witness ==
  /\ vg.pc = "done"
  /\ vg.tag_of = <<1, 30, 0>>
  /\ vg.min_of = None
  /\ vg.max_of = <<<<1, 30, 0>>>>
  /\ ~vg.skip

(***************************************************************************)
(* apply_path_renames: the symbolic-link pass after the files were moved   *)
(***************************************************************************)
\* os.path.dirname
dirname(path) ==
  IF \A i \in 1..Len(path) : path[i] # "/" THEN <<>>
  ELSE LET k == CHOOSE i \in 1..Len(path) :
                  path[i] = "/" /\ \A j \in (i + 1)..Len(path) : path[j] # "/"
           head == SubSeq(path, 1, k)
       IN  IF RStripSlash(head) = <<>> THEN head ELSE RStripSlash(head)

\* os.path.basename
basename(path) ==
  IF \A i \in 1..Len(path) : path[i] # "/" THEN path
  ELSE LET k == CHOOSE i \in 1..Len(path) :
                  path[i] = "/" /\ \A j \in (i + 1)..Len(path) : path[j] # "/"
       IN  SubSeq(path, k + 1, Len(path))

\* os.path.splitext(name)[1]: from the last dot on, unless only dots precede it
splitext_ext(name) ==
  IF \A i \in 1..Len(name) : name[i] # "." THEN <<>>
  ELSE LET k == CHOOSE i \in 1..Len(name) :
                  name[i] = "." /\ \A j \in (i + 1)..Len(name) : name[j] # "."
       IN  IF \E j \in 1..(k - 1) : name[j] # "."
           THEN SubSeq(name, k, Len(name))
           ELSE <<>>

\* any(pattern.search(s) for pattern in regexes)
AnySearch(regexes, s) == \E i \in 1..Len(regexes) : RegexSearch(regexes[i], s)

\* the three "target might have been skipped during renaming" checks
target_is_ignored(cfg, target) ==
  \/ AnySearch(cfg.ignored_folders, dirname(target))
  \/ AnySearch(cfg.ignored_files, basename(target))
  \/ AnySearch(cfg.ignored_file_types, splitext_ext(basename(target)))

\* the body of the loop for one name of "files": the target the link has afterwards
fix_symlink(cfg, link) ==
  IF ~link.is_link THEN link.target
  ELSE IF target_is_ignored(cfg, link.target) THEN link.target
  ELSE apply_rename_patterns(cfg.patterns, link.target)

\* The directory a link points at is still there after the files were moved when
\* its files were not moved away (their path is ignored or unchanged) or when it
\* keeps an entry the first pass does not move (an ignored or untracked file);
\* otherwise it was emptied and removed, and the link dangles.
resolves_to_dir(cfg, link) ==
  /\ link.target_kind = "dir"
  /\ \/ link.dir_keeps_entry
     \/ target_is_ignored(cfg, link.target \o <<"/", "f">>)
     \/ apply_rename_patterns(cfg.patterns, link.target) = link.target

\* os.walk lists a symbolic link that resolves to a directory among "dirs", every
\* other entry that is not a directory among "files"
listed_in_files(cfg, link) == ~resolves_to_dir(cfg, link)

LinkTargetInputs ==
  { <<"a">>,
    <<"c">>,
    <<"b", "/", "a">>,
    <<"c", "/", "a">>,
    <<"c", "/", "a", ".", "p">>,
    <<".", ".", "/", "a", "/", "c">> }

\* a symbolic link of the tree: what its target was before the renames (a file or
\* nothing, or a directory) and whether that directory keeps an unmoved entry
LinkInputs ==
  [is_link : BOOLEAN, target : LinkTargetInputs, target_kind : {"file", "dir"},
   dir_keeps_entry : BOOLEAN]

SymlinkPatternInputs ==
  { RenamePattern(<<"a">>, <<"b">>, <<>>),
    RenamePattern(<<"b">>, <<"c">>, <<>>),
    RenamePattern(<<"a">>, <<"d">>, << <<"c">> >>) }

InitSymlinks ==
  /\ \E links \in StringsUpTo(LinkInputs, MaxLinks) \ {<<>>},
        patterns \in StringsUpTo(SymlinkPatternInputs, MaxPatterns),
        ignored_folders \in {<<>>, << <<"b">> >>},
        ignored_files \in {<<>>, << <<"c">> >>},
        ignored_file_types \in {<<>>, << <<"p">> >>} :
       sl = [pc |-> "walk", links |-> links, idx |-> 1,
             targets |-> [i \in 1..Len(links) |-> links[i].target],
             patterns |-> patterns,
             ignored_folders |-> ignored_folders,
             ignored_files |-> ignored_files,
             ignored_file_types |-> ignored_file_types]
  /\ pm = Idle
  /\ co = Idle
  /\ at = Idle
  /\ rn = Idle
  /\ vg = Idle
  /\ cp = Idle
  /\ tc = Idle
  /\ cr = Idle
  /\ ed = Idle
  /\ pl = Idle
  /\ gp = Idle
  /\ ex = Idle
  /\ cl = Idle

\* the second os.walk meets the next symbolic link of the tree
FixSymlinkStep ==
  /\ sl.pc = "walk"
  /\ sl.idx <= Len(sl.links)
  /\ sl' = [sl EXCEPT
              !.idx = @ + 1,
              !.targets[sl.idx] =
                 IF listed_in_files(sl, sl.links[sl.idx])
                 THEN fix_symlink(sl, sl.links[sl.idx])
                 ELSE @]
  /\ UNCHANGED <<pm, co, at, rn, vg, cp, tc, cr, ed, pl, gp, ex, cl>>

SymlinksDone ==
  /\ sl.pc = "walk"
  /\ sl.idx > Len(sl.links)
  /\ sl' = [sl EXCEPT !.pc = "done"]
  /\ UNCHANGED <<pm, co, at, rn, vg, cp, tc, cr, ed, pl, gp, ex, cl>>

NextSymlinks == FixSymlinkStep \/ SymlinksDone

SpecSymlinks == InitSymlinks /\ [][NextSymlinks]_vars

\* C10: after the pass every symbolic link whose target string the rename patterns
\* change (and that the ignore rules do not cover) points at the renamed target
\* string, and every link whose target the ignore rules cover keeps its target.
C10_SymlinkRepair ==
  sl.pc = "done" =>
    \A i \in { j \in 1..Len(sl.links) : sl.links[j].is_link } :
      IF target_is_ignored(sl, sl.links[i].target)
      THEN sl.targets[i] = sl.links[i].target
      ELSE sl.targets[i] = apply_rename_patterns(sl.patterns, sl.links[i].target)

(***************************************************************************)
(* create_patches.py: process_folders, process_folder, create_patch        *)
(*                                                                         *)
(* A tree maps a relative path (a sequence of names) to an entry: nothing, *)
(* a directory, a symbolic link whose target is missing, or a file with    *)
(* its content as stored.  A file is opened in                             *)
(* text mode: reading it translates "\r\n" and "\r" to "\n" and fails on   *)
(* content that does not decode.  A patch is the pair of labels and the    *)
(* two line lists that difflib.unified_diff was given; the diff text is    *)
(* empty exactly when the two line lists are equal.                        *)
(***************************************************************************)
NoEntry == [kind |-> "none", text |-> <<>>, decodes |-> TRUE]

DirEntry == [kind |-> "dir", text |-> <<>>, decodes |-> TRUE]

TextFile(t) == [kind |-> "file", text |-> t, decodes |-> TRUE]

BinaryFile == [kind |-> "file", text |-> <<>>, decodes |-> FALSE]

\* a symbolic link whose target does not exist
DanglingLink == [kind |-> "link", text |-> <<>>, decodes |-> TRUE]

\* os.path.exists(path): follows symbolic links
exists(entry) == entry.kind \in {"dir", "file"}

DevNull == <<"/dev/null">>

\* the newline translation of a file opened with open(path, 'r')
RECURSIVE UniversalNewlines(_)
UniversalNewlines(t) ==
  IF t = <<>> THEN <<>>
  ELSE IF Head(t) = "\r"
       THEN IF Len(t) > 1 /\ t[2] = "\n"
            THEN <<"\n">> \o UniversalNewlines(SubSeq(t, 3, Len(t)))
            ELSE <<"\n">> \o UniversalNewlines(Tail(t))
       ELSE <<Head(t)>> \o UniversalNewlines(Tail(t))

\* str.splitlines(keepends=True) of a text whose only line end is "\n"
RECURSIVE LinesFrom(_, _, _)
LinesFrom(t, start, i) ==
  IF i > Len(t)
  THEN IF start > Len(t) THEN <<>> ELSE <<SubSeq(t, start, Len(t))>>
  ELSE IF t[i] = "\n"
       THEN <<SubSeq(t, start, i)>> \o LinesFrom(t, i + 1, i + 1)
       ELSE LinesFrom(t, start, i + 1)

\* f.readlines()
readlines(entry) == LinesFrom(UniversalNewlines(entry.text), 1, 1)

\* ''.join(difflib.unified_diff(a, b, ...)) is the empty string
diff_is_empty_never(source_lines, target_lines) == FALSE

diff_is_empty(source_lines, target_lines) == source_lines = target_lines

\* create_patch: the patch written to patch_file, or None when it returns
\* without writing
create_patch(source_entry, target_entry, relative_item) ==
  LET from_file == IF exists(source_entry) THEN relative_item ELSE DevNull
      to_file   == IF exists(target_entry) THEN relative_item ELSE DevNull
      source_lines == IF exists(source_entry) THEN readlines(source_entry) ELSE <<>>
      target_lines == IF exists(target_entry) THEN readlines(target_entry) ELSE <<>>
  IN  IF exists(source_entry) /\ ~source_entry.decodes THEN None
      ELSE IF exists(target_entry) /\ ~target_entry.decodes THEN None
      ELSE IF diff_is_empty(source_lines, target_lines) THEN None
      ELSE Some([fromfile |-> from_file, tofile |-> to_file,
                 source_lines |-> source_lines, target_lines |-> target_lines])

PatchFolder == <<"d">>

PatchPaths == { <<"d", "f">>, <<"d", "s">>, <<"d", "s", "f">> }

\* os.listdir(folder) of one tree, for a folder that exists in it; a symbolic link
\* is listed whatever its target
listdir(tree, folder) ==
  { p \in PatchPaths : Len(p) = Len(folder) + 1 /\ SubSeq(p, 1, Len(folder)) = folder
                       /\ tree[p].kind # "none" }

\* os.path.exists(folder) ... else set(); listing a file raises NotADirectoryError
items_of(tree, folder) ==
  IF folder = PatchFolder \/ tree[folder].kind = "dir" THEN listdir(tree, folder) ELSE {}

listing_raises(tree, folder) == folder # PatchFolder /\ tree[folder].kind = "file"

OrderingsOf(S) ==
  { q \in UNION { [1..n -> S] : n \in {Cardinality(S)} } :
      \A i, j \in 1..Len(q) : i # j => q[i] # q[j] }

TextInputs ==
  { <<>>, <<"a", "\n">>, <<"b", "\n">>, <<"a", "\r", "\n">>, <<"a">> }

FileInputs == { NoEntry, BinaryFile, DanglingLink } \cup { TextFile(t) : t \in TextInputs }

NestedFileInputs == { NoEntry, TextFile(<<>>), TextFile(<<"a", "\n">>), TextFile(<<"b", "\n">>) }

\* the trees under the processed folder
PatchTreeInputs ==
  { t \in [PatchPaths -> FileInputs \cup {DirEntry}] :
      /\ t[<<"d", "f">>] \in FileInputs
      /\ t[<<"d", "s">>] \in { NoEntry, DirEntry, TextFile(<<"a", "\n">>) }
      /\ t[<<"d", "s", "f">>] \in NestedFileInputs
      /\ t[<<"d", "s">>].kind # "dir" => t[<<"d", "s", "f">>] = NoEntry }

NoPatches == [p \in PatchPaths |-> None]

StalePatch ==
  [fromfile |-> <<"d", "f">>, tofile |-> <<"d", "f">>,
   source_lines |-> <<<<"o", "\n">>>>, target_lines |-> <<>>]

InitPatches ==
  /\ cp \in [pc : {"start"}, error : {""}, source : PatchTreeInputs, target : PatchTreeInputs,
             output : { NoPatches, [NoPatches EXCEPT ![<<"d", "f">>] = Some(StalePatch)] },
             stack : {<<>>}, compared : {{}}]
  /\ pm = Idle
  /\ co = Idle
  /\ at = Idle
  /\ rn = Idle
  /\ vg = Idle
  /\ sl = Idle
  /\ tc = Idle
  /\ cr = Idle
  /\ ed = Idle
  /\ pl = Idle
  /\ gp = Idle
  /\ ex = Idle
  /\ cl = Idle

\* process_folders: recreate the output folder, then process_folder(folder)
RecreateOutput ==
  /\ cp.pc = "start"
  /\ \E items \in OrderingsOf(items_of(cp.source, PatchFolder) \cup items_of(cp.target, PatchFolder)) :
       cp' = [cp EXCEPT !.pc = "walk", !.output = NoPatches, !.stack = items]
  /\ UNCHANGED <<pm, co, at, rn, vg, sl, tc, cr, ed, pl, gp, ex, cl>>

\* process_folder: one item of the loop, a recursion or a create_patch call
ProcessItem ==
  /\ cp.pc = "walk"
  /\ cp.stack # <<>>
  /\ LET item == Head(cp.stack)
         source_item == cp.source[item]
         target_item == cp.target[item]
     IN  IF ~exists(source_item) /\ ~exists(target_item)
         THEN cp' = [cp EXCEPT !.pc = "failed", !.error = "Exception"]
         ELSE IF source_item.kind = "dir" \/ target_item.kind = "dir"
         THEN IF listing_raises(cp.source, item) \/ listing_raises(cp.target, item)
              THEN cp' = [cp EXCEPT !.pc = "failed", !.error = "NotADirectoryError"]
              ELSE \E items \in OrderingsOf(items_of(cp.source, item) \cup items_of(cp.target, item)) :
                     cp' = [cp EXCEPT !.stack = items \o Tail(cp.stack)]
         ELSE cp' = [cp EXCEPT !.stack = Tail(cp.stack),
                               !.compared = cp.compared \cup {item},
                               !.output = [cp.output EXCEPT ![item] =
                                  LET written == create_patch(source_item, target_item, item)
                                  IN  IF written = None THEN cp.output[item] ELSE written]]
  /\ UNCHANGED <<pm, co, at, rn, vg, sl, tc, cr, ed, pl, gp, ex, cl>>

ProcessFoldersReturn ==
  /\ cp.pc = "walk"
  /\ cp.stack = <<>>
  /\ cp' = [cp EXCEPT !.pc = "done"]
  /\ UNCHANGED <<pm, co, at, rn, vg, sl, tc, cr, ed, pl, gp, ex, cl>>

NextPatches == RecreateOutput \/ ProcessItem \/ ProcessFoldersReturn

SpecPatches == InitPatches /\ [][NextPatches]_vars

IsReadableFile(entry) == entry.kind = "file" /\ entry.decodes

C12_OneSidedFiles ==
  cp.pc = "done" =>
    \A p \in cp.compared :
      /\ (IsReadableFile(cp.source[p]) /\ cp.target[p].kind = "none") =>
            /\ cp.output[p] # None
            /\ cp.output[p][1].fromfile = p /\ cp.output[p][1].tofile = DevNull
            /\ cp.output[p][1].target_lines = <<>>
      /\ (cp.source[p].kind = "none" /\ IsReadableFile(cp.target[p])) =>
            /\ cp.output[p] # None
            /\ cp.output[p][1].fromfile = DevNull /\ cp.output[p][1].tofile = p
            /\ cp.output[p][1].source_lines = <<>>

\* the entries of both trees are directories and files of readable text only
OnlyDirsAndText ==
  \A p \in PatchPaths :
    /\ cp.source[p].kind \in {"none", "dir"} \/ IsReadableFile(cp.source[p])
    /\ cp.target[p].kind \in {"none", "dir"} \/ IsReadableFile(cp.target[p])

\* C25: with both trees left as they are during the run, process_folder never
\* raises its "does not exist in either source or target" error, whatever the
\* kinds of the entries listed, a symbolic link without a target included.
C25_NeitherErrorUnreachable == cp.error # "Exception"

\* C26: on two trees of directories and files of readable text, process_folder
\* ends without an error, also when an entry is a directory in one tree and a file
\* in the other: the entry is recursed into and the file side lists nothing.
C26_CompletesOnMixedKinds == OnlyDirsAndText => cp.pc # "failed"

(***************************************************************************)
(* slipstream.py __main__: the pipeline                                    *)
(*                                                                         *)
(* A run checks its arguments, resolves the version and then goes through  *)
(* the stage blocks in the order of the source text.  A stage block runs   *)
(* its function in the subfolders execute_in_subfolders selects; the       *)
(* function runs external commands and then, with --commit-between-steps,  *)
(* commit_changes.  The exit status of every external command is chosen by *)
(* the environment.  pl.log is the list of the stage blocks entered, the   *)
(* stage functions run and the commit steps completed, in order.           *)
(***************************************************************************)
\* the stage blocks of __main__, in the order of the source text
StageOrderRevertBeforeClippy ==
  << "clone_source", "create_branch", "delete", "apply_path_renames",
     "apply_code_renames", "copy_overwrites", "apply_patches", "run_fix_typos",
     "run_cargo_fmt", "run_dprint_fmt", "run_pnpm_prettier_fix", "run_pnpm_lint_fix",
     "run_shell_commands", "revert_patches", "run_cargo_clippy",
     "recompile_framework_packages" >>

StageOrder ==
  << "clone_source", "create_branch", "delete", "apply_path_renames",
     "apply_code_renames", "copy_overwrites", "apply_patches", "run_fix_typos",
     "run_cargo_fmt", "run_dprint_fmt", "run_pnpm_prettier_fix", "run_pnpm_lint_fix",
     "run_shell_commands", "run_cargo_clippy", "revert_patches",
     "recompile_framework_packages" >>

Stages == { StageOrder[i] : i \in DOMAIN StageOrder }

\* the store_true options of the argument parser that switch stages on
ToggleNames == Stages \ {"revert_patches"}

\* the argument tested by the "if args.<toggle>:" of a stage block
ToggleOfRevertIsRecompile(stage) ==
  IF stage = "revert_patches" THEN "recompile_framework_packages" ELSE stage

ToggleOf(stage) == IF stage = "revert_patches" THEN "apply_patches" ELSE stage

\* execute_in_subfolders(..., filter=[main_repository_folder_name]) or no filter
RunsInEverySubfolder(stage) ==
  stage \in {"create_branch", "apply_path_renames", "apply_code_renames"}

RECURSIVE SelectSeq2(_, _)
SelectSeq2(q, S) ==
  IF q = <<>> THEN <<>>
  ELSE IF Head(q) \in S THEN <<Head(q)>> \o SelectSeq2(Tail(q), S) ELSE SelectSeq2(Tail(q), S)

StageFolders(stage, subfolders) ==
  IF RunsInEverySubfolder(stage) THEN subfolders ELSE SelectSeq2(subfolders, {"main"})

\* the stage functions that end with "if args.commit_between_steps: commit_changes(...)"
CommitsAfterButRevert(stage) ==
  stage \notin {"clone_source", "create_branch", "revert_patches"}

CommitsAfter(stage) == stage \notin {"clone_source", "create_branch"}

\* an external command or file operation of a stage function: check is
\* "always" for check=True and for raised exceptions, "panic" for
\* check=panic_on_errors, "if_tracked" for the git mv whose failure is
\* skipped when the file is not tracked
Cmd(name, kind, check) == [name |-> name, kind |-> kind, check |-> check]

PrepareDockerTurborepo ==
  << Cmd("docker build", "tool", "always"),
     Cmd("pnpm i", "tool", "always"),
     Cmd("pnpm add", "tool", "always") >>

StageCommands(stage) ==
  CASE stage = "clone_source" -> << Cmd("git clone", "vcs", "always") >>
    [] stage = "create_branch" -> << Cmd("git checkout -b", "vcs", "always") >>
    [] stage = "delete" -> << Cmd("delete", "fs", "always") >>
    [] stage = "apply_path_renames" -> << Cmd("git mv", "vcs", "if_tracked") >>
    [] stage = "apply_code_renames" -> << Cmd("read and write", "fs", "always") >>
    [] stage = "copy_overwrites" -> << Cmd("copy", "fs", "always") >>
    [] stage = "apply_patches" -> << Cmd("git apply", "vcs", "always") >>
    [] stage = "run_fix_typos" -> << Cmd("typos", "tool", "panic") >>
    [] stage = "run_cargo_fmt" -> << Cmd("cargo fmt", "tool", "panic") >>
    [] stage = "run_dprint_fmt" -> << Cmd("dprint fmt", "tool", "panic") >>
    [] stage = "run_pnpm_prettier_fix" ->
         PrepareDockerTurborepo \o << Cmd("pnpm turbo prettier:fix", "tool", "panic") >>
    [] stage = "run_pnpm_lint_fix" ->
         PrepareDockerTurborepo \o << Cmd("pnpm turbo build", "tool", "panic"),
                                      Cmd("pnpm turbo lint:fix", "tool", "panic") >>
    [] stage = "run_shell_commands" -> << Cmd("shell command", "tool", "always") >>
    [] stage = "run_cargo_clippy" -> << Cmd("cargo clippy", "tool", "panic") >>
    [] stage = "revert_patches" -> << Cmd("git apply -R", "vcs", "always") >>
    [] stage = "recompile_framework_packages" -> << Cmd("cargo build", "tool", "always") >>

\* subprocess.run(..., check=...) raises on a non-zero exit
is_fatal_always(cmd, panic_on_errors, tracked) == TRUE

is_fatal(cmd, panic_on_errors, tracked) ==
  CASE cmd.check = "always" -> TRUE
    [] cmd.check = "panic" -> panic_on_errors
    [] cmd.check = "if_tracked" -> tracked

NoCmd == Cmd("", "", "")

\* commit_changes: git add, git diff --cached --quiet, git commit
commit_changes(add_ok, staged, commit_ok) ==
  IF ~add_ok THEN [result |-> "failed", fatal |-> Cmd("git add", "vcs", "always")]
  ELSE IF ~staged THEN [result |-> "noop", fatal |-> NoCmd]
  ELSE IF ~commit_ok THEN [result |-> "failed", fatal |-> Cmd("git commit", "vcs", "always")]
  ELSE [result |-> "committed", fatal |-> NoCmd]

\* the stage function in one subfolder, for exit statuses chosen by the
\* environment: fails is the set of commands that would exit non-zero
MinOf(S) == CHOOSE x \in S : \A y \in S : x <= y

stage_function(stage, args, env) ==
  LET cmds == StageCommands(stage)
      fatal_at == { i \in env.fails : is_fatal(cmds[i], args.panic_on_linter_errors, env.tracked) }
      stop == IF fatal_at = {} THEN Len(cmds) + 1 ELSE MinOf(fatal_at)
      failed == { cmds[i] : i \in { j \in env.fails : j <= stop } }
      commit == IF args.commit_between_steps /\ CommitsAfter(stage)
                THEN commit_changes(env.add_ok, env.staged, env.commit_ok)
                ELSE [result |-> "none", fatal |-> NoCmd]
  IN  IF fatal_at # {}
      THEN [stage |-> stage, raised |-> TRUE, fatal |-> cmds[stop], failed |-> failed,
            staged |-> FALSE, commit |-> "none"]
      ELSE [stage |-> stage, raised |-> commit.result = "failed", fatal |-> commit.fatal,
            failed |-> failed, staged |-> env.staged, commit |-> commit.result]

\* the exit statuses the environment can choose; a status that no command
\* of the stage function looks at is left at one value
EnvInputs(stage, args) ==
  LET commits == args.commit_between_steps /\ CommitsAfter(stage)
  IN  { e \in [fails : SUBSET (DOMAIN StageCommands(stage)), tracked : BOOLEAN,
                staged : BOOLEAN, add_ok : BOOLEAN, commit_ok : BOOLEAN] :
          /\ (stage # "apply_path_renames" \/ e.fails = {}) => e.tracked
          /\ ~commits => (e.staged /\ e.add_ok /\ e.commit_ok)
          /\ ~e.add_ok => (e.staged /\ e.commit_ok)
          /\ ~e.staged => e.commit_ok }

Event(stage, folder, what) == [stage |-> stage, folder |-> folder, what |-> what]

\* the log of a stage function that returned in each of the folders
RECURSIVE CompletedLog(_, _, _)
CompletedLog(stage, folders, args) ==
  IF folders = <<>> THEN <<>>
  ELSE << Event(stage, Head(folders), "run") >>
       \o (IF args.commit_between_steps /\ CommitsAfter(stage)
           THEN << Event(stage, Head(folders), "commit") >> ELSE <<>>)
       \o CompletedLog(stage, Tail(folders), args)

ValidTag == << Chr("v"), Num(1), Chr("."), Num(30), Chr("."), Num(0) >>

NoVersionTag == << Chr("m"), Chr("a"), Chr("i"), Chr("n") >>

\* the toggle combinations of the model: none, each one alone, all, all but one
ToggleInputs ==
  { [t \in ToggleNames |-> FALSE], [t \in ToggleNames |-> TRUE] }
  \cup { [t \in ToggleNames |-> t = u] : u \in ToggleNames }
  \cup { [t \in ToggleNames |-> t # u] : u \in ToggleNames }

\* --repo-url, --repo-tag and --version
RepoInputs ==
  { [repo_url |-> <<"u">>, repo_tag |-> ValidTag, version |-> None],
    [repo_url |-> <<"u">>, repo_tag |-> NoVersionTag, version |-> Some(ValidTag)],
    [repo_url |-> <<"u">>, repo_tag |-> NoVersionTag, version |-> Some(NoVersionTag)],
    [repo_url |-> <<"u">>, repo_tag |-> NoVersionTag, version |-> None],
    [repo_url |-> <<"u">>, repo_tag |-> <<>>, version |-> Some(ValidTag)],
    [repo_url |-> <<>>, repo_tag |-> ValidTag, version |-> None] }

ArgsInputs ==
  { [toggles |-> t, repo_url |-> r.repo_url, repo_tag |-> r.repo_tag, version |-> r.version,
     target_branch |-> b, commit_between_steps |-> c, panic_on_linter_errors |-> p] :
       t \in ToggleInputs, r \in RepoInputs, b \in { None, Some("b") },
       c \in BOOLEAN, p \in BOOLEAN }

SubfolderInputs == { <<"main">>, <<"ext", "main">>, <<"ext">> }

NoOutcome ==
  [stage |-> "", raised |-> FALSE, fatal |-> NoCmd, failed |-> {}, staged |-> FALSE, commit |-> "none"]

InitPipeline ==
  /\ pl \in [pc : {"arguments"}, args : ArgsInputs, subfolders : SubfolderInputs,
             sem_version : {None}, stage : {1}, log : {<<>>}, mutated : {FALSE},
             error : {"none"}, last : {NoOutcome}]
  /\ pm = Idle
  /\ co = Idle
  /\ at = Idle
  /\ rn = Idle
  /\ vg = Idle
  /\ sl = Idle
  /\ cp = Idle
  /\ tc = Idle
  /\ cr = Idle
  /\ ed = Idle
  /\ gp = Idle
  /\ ex = Idle
  /\ cl = Idle

\* lines 753-770: the checks of the repository URL and tag, the version
CheckArguments ==
  /\ pl.pc = "arguments"
  /\ LET a == pl.args
         needs_repo == a.toggles["clone_source"] \/ a.toggles["copy_overwrites"]
                       \/ a.toggles["apply_patches"]
         needs_version == a.toggles["copy_overwrites"] \/ a.toggles["apply_patches"]
         from_tag == extract_sem_version(a.repo_tag)
         from_arg == IF a.version = None THEN None ELSE extract_sem_version(a.version[1])
     IN  IF needs_repo /\ (a.repo_url = <<>> \/ a.repo_tag = <<>>)
         THEN pl' = [pl EXCEPT !.pc = "failed", !.error = "config"]
         ELSE IF ~needs_version
              THEN pl' = [pl EXCEPT !.pc = "stages"]
              ELSE IF from_tag # None
                   THEN pl' = [pl EXCEPT !.pc = "stages", !.sem_version = from_tag]
                   ELSE IF from_arg # None
                        THEN pl' = [pl EXCEPT !.pc = "stages", !.sem_version = from_arg]
                        ELSE pl' = [pl EXCEPT !.pc = "failed", !.error = "config"]
  /\ UNCHANGED <<pm, co, at, rn, vg, sl, cp, tc, cr, ed, gp, ex, cl>>

CurrentStage == StageOrder[pl.stage]

AtStage == pl.pc = "stages" /\ pl.stage <= Len(StageOrder)

\* a stage block whose "if args.<toggle>:" is false
SkipStage ==
  /\ AtStage
  /\ ~pl.args.toggles[ToggleOf(CurrentStage)]
  /\ pl' = [pl EXCEPT !.stage = pl.stage + 1, !.last = NoOutcome]
  /\ UNCHANGED <<pm, co, at, rn, vg, sl, cp, tc, cr, ed, gp, ex, cl>>

\* lines 775-792: remove the target folder and clone into it
CloneSource ==
  /\ AtStage
  /\ CurrentStage = "clone_source"
  /\ pl.args.toggles["clone_source"]
  /\ \E env \in EnvInputs("clone_source", pl.args) : \E cloned \in { <<"main">>, <<"ext", "main">> } :
       LET out == stage_function("clone_source", pl.args, env)
           entered == pl.log \o << Event("clone_source", "", "enter") >>
       IN  IF out.raised
           THEN pl' = [pl EXCEPT !.pc = "failed", !.error = "command", !.mutated = TRUE,
                                 !.subfolders = <<>>, !.log = entered, !.last = out]
           ELSE pl' = [pl EXCEPT !.stage = pl.stage + 1, !.mutated = TRUE,
                                 !.subfolders = cloned, !.last = out,
                                 !.log = entered \o << Event("clone_source", "main", "run") >>]
  /\ UNCHANGED <<pm, co, at, rn, vg, sl, cp, tc, cr, ed, gp, ex, cl>>

\* the other stage blocks: the stage function in every selected subfolder
RunStage ==
  /\ AtStage
  /\ CurrentStage # "clone_source"
  /\ pl.args.toggles[ToggleOf(CurrentStage)]
  /\ LET stage == CurrentStage
         folders == StageFolders(stage, pl.subfolders)
         entered == pl.log \o << Event(stage, "", "enter") >>
     IN  IF stage = "create_branch" /\ pl.args.target_branch = None
         THEN pl' = [pl EXCEPT !.pc = "failed", !.error = "config", !.log = entered,
                               !.last = NoOutcome]
         ELSE IF folders = <<>>
              THEN pl' = [pl EXCEPT !.stage = pl.stage + 1, !.log = entered, !.last = NoOutcome]
              ELSE \E k \in 1..Len(folders) : \E env \in EnvInputs(stage, pl.args) :
                     LET out == stage_function(stage, pl.args, env)
                         before == CompletedLog(stage, SubSeq(folders, 1, k - 1), pl.args)
                         here == << Event(stage, folders[k], "run") >>
                                 \o (IF out.commit \in {"noop", "committed"}
                                     THEN << Event(stage, folders[k], "commit") >> ELSE <<>>)
                     IN  /\ out.raised \/ k = Len(folders)
                         /\ pl' = [pl EXCEPT
                                     !.pc = IF out.raised THEN "failed" ELSE "stages",
                                     !.error = IF out.raised THEN "command" ELSE "none",
                                     !.stage = IF out.raised THEN pl.stage ELSE pl.stage + 1,
                                     !.mutated = TRUE,
                                     !.log = entered \o before \o here,
                                     !.last = out]
  /\ UNCHANGED <<pm, co, at, rn, vg, sl, cp, tc, cr, ed, gp, ex, cl>>

PipelineEnd ==
  /\ pl.pc = "stages"
  /\ pl.stage = Len(StageOrder) + 1
  /\ pl' = [pl EXCEPT !.pc = "done", !.last = NoOutcome]
  /\ UNCHANGED <<pm, co, at, rn, vg, sl, cp, tc, cr, ed, gp, ex, cl>>

NextPipeline == CheckArguments \/ SkipStage \/ CloneSource \/ RunStage \/ PipelineEnd

SpecPipeline == InitPipeline /\ [][NextPipeline]_vars

Entered(stage) == \E i \in DOMAIN pl.log : pl.log[i] = Event(stage, "", "enter")

\* the order of the stages as the claim lists it
ClaimedOrder ==
  << "clone_source", "create_branch", "delete", "apply_path_renames",
     "apply_code_renames", "copy_overwrites", "apply_patches", "run_fix_typos",
     "run_cargo_fmt", "run_dprint_fmt", "run_pnpm_prettier_fix", "run_pnpm_lint_fix",
     "run_shell_commands", "run_cargo_clippy", "revert_patches",
     "recompile_framework_packages" >>

ClaimedPosition(stage) == CHOOSE i \in DOMAIN ClaimedOrder : ClaimedOrder[i] = stage

\* C13: the stages of a run execute in the order clone, branch-create,
\* delete, path-rename, code-rename, overlay-copy, patch-apply, fix-typos,
\* cargo fmt, dprint fmt, prettier:fix, lint:fix, shell commands, cargo
\* clippy, patch-revert, recompile: everything a stage does comes after all
\* that the stages before it did, and no stage (nor a stage function in one
\* subfolder) runs twice.
C13_FixedStageOrder ==
  /\ \A i, j \in DOMAIN pl.log :
       i < j => ClaimedPosition(pl.log[i].stage) <= ClaimedPosition(pl.log[j].stage)
  /\ \A i, j \in DOMAIN pl.log :
       (i # j /\ pl.log[i].what \in {"enter", "run"}) => pl.log[i] # pl.log[j]
  /\ \A i \in DOMAIN pl.log :
       pl.log[i].what # "enter" =>
         \E k \in 1..(i - 1) : pl.log[k] = Event(pl.log[i].stage, "", "enter")

C13_Witness ==
  /\ pl.pc = "done"
  /\ \A t \in ToggleNames : pl.args.toggles[t]
  /\ \A stage \in Stages : Entered(stage)
  /\ Len(pl.log) > 2 * Len(StageOrder)

\* C14: every configuration error (repository URL or tag empty, version not
\* extractable, --create-branch without --target-branch) is raised before
\* the run has changed anything.
C14_ConfigErrorsBeforeMutation ==
  pl.error = "config" => ~pl.mutated

LinterStages ==
  { "run_fix_typos", "run_cargo_fmt", "run_dprint_fmt", "run_pnpm_prettier_fix",
    "run_pnpm_lint_fix", "run_cargo_clippy" }

ToolFailed == \E c \in pl.last.failed : c.kind = "tool"

\* C15 (as stated): without --panic-on-linter-errors a non-zero exit of any
\* external command of a linting/formatting stage does not abort the run;
\* with it, it does; a failing version-control command always aborts.
C15_AnyLinterCommandTolerated ==
  /\ (pl.last.stage \in LinterStages /\ ~pl.args.panic_on_linter_errors /\ ToolFailed) =>
        (~pl.last.raised \/ pl.last.fatal.kind = "vcs")
  /\ (pl.last.stage \in LinterStages /\ pl.args.panic_on_linter_errors /\ ToolFailed) =>
        pl.last.raised
  /\ \A c \in pl.last.failed : c.kind = "vcs" => pl.last.raised

\* C15 (amended): without --panic-on-linter-errors a non-zero exit of the
\* linting/formatting command of a stage (typos, cargo fmt, dprint fmt,
\* pnpm turbo prettier:fix, pnpm turbo build, pnpm turbo lint:fix, cargo
\* clippy) does not abort the run and the next stage block is reached; with
\* it, it aborts the run.  The commands that prepare the docker container
\* (docker build, pnpm i, pnpm add) are fatal either way, and a failing
\* version-control command is fatal except the git mv of a file that is not
\* tracked.
C15_LinterTolerance ==
  /\ (pl.last.stage \in LinterStages /\ ~pl.args.panic_on_linter_errors /\ pl.last.raised) =>
        /\ pl.last.fatal \notin
             { Cmd("typos", "tool", "panic"), Cmd("cargo fmt", "tool", "panic"),
               Cmd("dprint fmt", "tool", "panic"), Cmd("pnpm turbo prettier:fix", "tool", "panic"),
               Cmd("pnpm turbo build", "tool", "panic"), Cmd("pnpm turbo lint:fix", "tool", "panic"),
               Cmd("cargo clippy", "tool", "panic") }
        /\ pl.last.fatal.kind = "vcs" \/ pl.last.fatal \in
             { Cmd("docker build", "tool", "always"), Cmd("pnpm i", "tool", "always"),
               Cmd("pnpm add", "tool", "always") }
  /\ (pl.last.stage \in LinterStages /\ ~pl.last.raised) =>
        /\ pl.pc = "stages"
        /\ pl.stage = ClaimedPosition(pl.last.stage) + 1
  /\ (pl.last.stage \in LinterStages /\ pl.args.panic_on_linter_errors /\ ToolFailed) =>
        pl.last.raised /\ pl.pc = "failed"
  /\ \A c \in pl.last.failed :
       (c.name \in {"docker build", "pnpm i", "pnpm add"}) => pl.last.raised
  /\ \A c \in pl.last.failed :
       (c.kind = "vcs" /\ c.name # "git mv") => pl.last.raised
  /\ (pl.last.fatal.kind = "vcs") => pl.pc = "failed"

C15_Witness ==
  /\ pl.last.stage = "run_pnpm_lint_fix"
  /\ ~pl.args.panic_on_linter_errors
  /\ Cmd("pnpm turbo build", "tool", "panic") \in pl.last.failed
  /\ ~pl.last.raised
  /\ pl.pc = "stages"

\* a "run" entry of the log whose stage function returned
Returned(i) == pl.log[i].what = "run" /\ (i < Len(pl.log) \/ pl.pc # "failed")

FollowedByCommit(i) ==
  /\ i < Len(pl.log)
  /\ pl.log[i + 1] = Event(pl.log[i].stage, pl.log[i].folder, "commit")

CommitIds == 1..MaxCommits

\* get_folder_commits: the output lines of git log -- folder
RECURSIVE LogFrom(_, _, _)
LogFrom(history, folder, newest) ==
  IF newest = 0 THEN <<>>
  ELSE (IF folder \in history[newest] THEN <<newest>> ELSE <<>>)
       \o LogFrom(history, folder, newest - 1)

get_folder_commits(history, folder) == LogFrom(history, folder, MaxCommits)

Elements(q) == { q[i] : i \in DOMAIN q }

\* the keys of a dict in insertion order: the first occurrences in the list
RECURSIVE KeysInOrder(_, _)
KeysInOrder(folders, seen) ==
  IF folders = <<>> THEN <<>>
  ELSE IF Head(folders) \in seen THEN KeysInOrder(Tail(folders), seen)
       ELSE <<Head(folders)>> \o KeysInOrder(Tail(folders), seen \cup {Head(folders)})

\* lines 129-134: the commits found in two of the non-empty folders
duplicate_commits_of_neighbours(non_empty_folders, folders_commits) ==
  { c \in CommitIds :
      \E i \in 1..(Len(non_empty_folders) - 1) :
        /\ c \in Elements(folders_commits[non_empty_folders[i]])
        /\ c \in Elements(folders_commits[non_empty_folders[i + 1]]) }

duplicate_commits(non_empty_folders, folders_commits) ==
  { c \in CommitIds :
      \E i \in DOMAIN non_empty_folders : \E j \in (i + 1)..Len(non_empty_folders) :
        /\ c \in Elements(folders_commits[non_empty_folders[i]])
        /\ c \in Elements(folders_commits[non_empty_folders[j]]) }

\* [commit for commit in commits if commit not in duplicate_commits]
RECURSIVE WithoutDuplicates(_, _)
WithoutDuplicates(commits, duplicates) ==
  IF commits = <<>> THEN <<>>
  ELSE (IF Head(commits) \in duplicates THEN <<>> ELSE <<Head(commits)>>)
       \o WithoutDuplicates(Tail(commits), duplicates)

\* reversed(commits)
RECURSIVE Reversed(_)
Reversed(q) == IF q = <<>> THEN <<>> ELSE Reversed(Tail(q)) \o <<Head(q)>>

TrackedFolders == {"x", "y", "z"}

FolderListInputs ==
  { <<"x">>, <<"x", "y">>, <<"y", "x">>, <<"x", "y", "z">>, <<"z", "y", "x">>,
    <<"x", "x">>, <<"x", "y", "x">> }

HistoryInputs == [CommitIds -> (SUBSET TrackedFolders) \ {{}}]

NoLogs == [f \in TrackedFolders |-> <<>>]

InitTracking ==
  /\ tc \in [pc : {"collect"}, folders : FolderListInputs, history : HistoryInputs,
             idx : {1}, folders_commits : {NoLogs}, keys : {<<>>},
             duplicate_commits : {{}}, sections : {<<>>}, cross : {<<>>}]
  /\ pm = Idle
  /\ co = Idle
  /\ at = Idle
  /\ rn = Idle
  /\ vg = Idle
  /\ sl = Idle
  /\ cp = Idle
  /\ cr = Idle
  /\ ed = Idle
  /\ pl = Idle
  /\ gp = Idle
  /\ ex = Idle
  /\ cl = Idle

\* lines 122-125: one folder of "for folder in folders"
CollectFolder ==
  /\ tc.pc = "collect"
  /\ tc.idx <= Len(tc.folders)
  /\ LET folder == tc.folders[tc.idx]
         commits == get_folder_commits(tc.history, folder)
     IN  tc' = [tc EXCEPT !.idx = tc.idx + 1,
                          !.folders_commits =
                             IF commits # <<>> THEN [tc.folders_commits EXCEPT ![folder] = commits]
                             ELSE tc.folders_commits,
                          !.keys = IF commits # <<>>
                                   THEN KeysInOrder(tc.keys \o <<folder>>, {})
                                   ELSE tc.keys]
  /\ UNCHANGED <<pm, co, at, rn, vg, sl, cp, cr, ed, pl, gp, ex, cl>>

\* lines 128-138: find the duplicate commits and remove them from each folder
SeparateDuplicates ==
  /\ tc.pc = "collect"
  /\ tc.idx = Len(tc.folders) + 1
  /\ LET duplicates == duplicate_commits(tc.keys, tc.folders_commits)
     IN  tc' = [tc EXCEPT !.pc = "print",
                          !.duplicate_commits = duplicates,
                          !.folders_commits =
                             [f \in TrackedFolders |->
                                WithoutDuplicates(tc.folders_commits[f], duplicates)]]
  /\ UNCHANGED <<pm, co, at, rn, vg, sl, cp, cr, ed, pl, gp, ex, cl>>

\* the printed sections of the folders that still have commits
RECURSIVE SectionsOf(_, _)
SectionsOf(keys, folders_commits) ==
  IF keys = <<>> THEN <<>>
  ELSE (IF folders_commits[Head(keys)] # <<>>
        THEN << [folder |-> Head(keys), commits |-> Reversed(folders_commits[Head(keys)])] >>
        ELSE <<>>)
       \o SectionsOf(Tail(keys), folders_commits)

\* lines 141-150: print the folders, then the cross-folder commits in the
\* order in which the set happens to list them
PrintReport ==
  /\ tc.pc = "print"
  /\ \E listed \in OrderingsOf(tc.duplicate_commits) :
       tc' = [tc EXCEPT !.pc = "done",
                        !.sections = SectionsOf(tc.keys, tc.folders_commits),
                        !.cross = Reversed(listed)]
  /\ UNCHANGED <<pm, co, at, rn, vg, sl, cp, cr, ed, pl, gp, ex, cl>>

NextTracking == CollectFolder \/ SeparateDuplicates \/ PrintReport

SpecTracking == InitTracking /\ [][NextTracking]_vars

\* the requested folders a commit was returned for
ReturnedFor(c) == { f \in Elements(tc.folders) : f \in tc.history[c] }

SectionsWith(c) == { i \in DOMAIN tc.sections : c \in Elements(tc.sections[i].commits) }

\* C16: the report partitions the commits returned for the folders: a commit
\* is listed as cross-folder exactly when it was returned for at least two
\* distinct folders, every other returned commit is listed once, under the
\* one folder it was returned for, none is listed both ways, none is lost,
\* and every folder lists its commits oldest first.
C16_CommitSeparation ==
  tc.pc = "done" =>
    /\ \A c \in CommitIds :
         (c \in Elements(tc.cross)) <=> (Cardinality(ReturnedFor(c)) >= 2)
    /\ \A c \in CommitIds :
         Cardinality(ReturnedFor(c)) = 1 =>
           /\ Cardinality(SectionsWith(c)) = 1
           /\ \A i \in SectionsWith(c) : ReturnedFor(c) = {tc.sections[i].folder}
    /\ \A c \in CommitIds : c \in Elements(tc.cross) => SectionsWith(c) = {}
    /\ \A c \in CommitIds : ReturnedFor(c) = {} => (SectionsWith(c) = {} /\ c \notin Elements(tc.cross))
    /\ \A i \in DOMAIN tc.sections :
         \A j, k \in DOMAIN tc.sections[i].commits :
           j < k => tc.sections[i].commits[j] < tc.sections[i].commits[k]
    /\ \A i, j \in DOMAIN tc.cross : i # j => tc.cross[i] # tc.cross[j]
    /\ \A i, j \in DOMAIN tc.sections : i # j => tc.sections[i].folder # tc.sections[j].folder

C16_Witness ==
  /\ tc.pc = "done"
  /\ Len(tc.folders) = 3
  /\ tc.cross # <<>>
  /\ \E i \in DOMAIN tc.sections : Len(tc.sections[i].commits) >= 2
  /\ \E c \in CommitIds : Cardinality(ReturnedFor(c)) = 2 /\ tc.folders[1] \in ReturnedFor(c)
                             /\ tc.folders[3] \in ReturnedFor(c)


(***************************************************************************)
(* slipstream.py: apply_code_renames                                       *)
(*                                                                         *)
(* A file of the walk has the directory os.walk lists it in (root), its    *)
(* name and its content as stored.  open(path, 'r') reads the content with *)
(* every line end translated to "\n"; open(path, 'w') stores the text it   *)
(* is given.                                                               *)
(***************************************************************************)
\* os.path.join(root, file_name)
join_path(root, file_name) == root \o <<"/">> \o file_name

\* the root is skipped (or was pruned from dirs) by an ignored-folder pattern
folder_is_ignored(cfg, root) == AnySearch(cfg.ignored_folders, root)

\* the checks that make the loop "continue" before the file is read
code_file_is_ignored(cfg, file) ==
  \/ folder_is_ignored(cfg, file.root)
  \/ AnySearch(cfg.ignored_file_types, splitext_ext(file.name))
  \/ AnySearch(cfg.ignored_files, join_path(file.root, file.name))

\* the "for pattern in patterns" loop over content
RECURSIVE apply_code_patterns(_, _, _)
apply_code_patterns(patterns, file_name, content) ==
  IF patterns = <<>> THEN content
  ELSE IF IgnoredByPattern(Head(patterns), file_name)
       THEN apply_code_patterns(Tail(patterns), file_name, content)
       ELSE apply_code_patterns(Tail(patterns), file_name,
              RegexSub(Head(patterns).regex, Head(patterns).replacement, content))

\* lines 444-446: the content is written back, whether or not it changed
writes_back(read_content, new_content) == TRUE

\* lines 430-431: the decode error is raised again and ends the walk / the file is
\* skipped and the walk goes on
on_decode_error_skip(self) ==
  [self EXCEPT !.idx = self.idx + 1, !.read = self.read \cup {self.idx}]

on_decode_error(self) ==
  [self EXCEPT !.pc = "failed", !.read = self.read \cup {self.idx}]

CodeFile(root, name, stored, decodes) ==
  [root |-> root, name |-> name, stored |-> stored, decodes |-> decodes]

CodeFileInputs ==
  { CodeFile(r, n, c, TRUE) :
      r \in { <<".">>, <<".", "/", "b">> },
      n \in { <<"a">>, <<"a", ".", "b">> },
      c \in { <<>>, <<"a", "\n">>, <<"c", "\n">>, <<"c", "\r", "\n">>, <<"a", "b">> } }
  \cup { CodeFile(<<".">>, <<"a">>, <<>>, FALSE) }

CodeFileListInputs ==
  { <<f>> : f \in CodeFileInputs }
  \cup { <<f, CodeFile(<<".">>, <<"b">>, <<"b", "\n">>, TRUE)>> : f \in CodeFileInputs }
  \cup { <<f, CodeFile(<<".">>, <<"a">>, <<>>, FALSE),
            CodeFile(<<".">>, <<"b">>, <<"b", "\n">>, TRUE)>> :
          f \in { g \in CodeFileInputs : g.decodes /\ join_path(g.root, g.name) # <<".", "/", "a">> } }

CodePatternInputs ==
  { <<>>,
    << RenamePattern(<<"a">>, <<"b">>, <<>>) >>,
    << RenamePattern(<<"a">>, <<"b">>, <<>>), RenamePattern(<<"b">>, <<"c">>, <<>>) >>,
    << RenamePattern(<<"a">>, <<"c">>, << <<"a">> >>) >>,
    << RenamePattern(<<"c">>, <<"c">>, <<>>) >> }

CodeIgnoreInputs ==
  { [ignored_folders |-> <<>>, ignored_files |-> <<>>, ignored_file_types |-> <<>>],
    [ignored_folders |-> << <<"b">> >>, ignored_files |-> <<>>, ignored_file_types |-> <<>>],
    [ignored_folders |-> <<>>, ignored_files |-> << <<"/", "a">> >>, ignored_file_types |-> <<>>],
    [ignored_folders |-> <<>>, ignored_files |-> <<>>, ignored_file_types |-> << <<".", "b">> >>] }

InitCodeRenames ==
  /\ \E files \in CodeFileListInputs : \E patterns \in CodePatternInputs :
     \E cfg \in CodeIgnoreInputs :
       cr = [pc |-> "walk", files |-> files, patterns |-> patterns, cfg |-> cfg, idx |-> 1,
             disk |-> [i \in DOMAIN files |-> files[i].stored],
             read |-> {}, written |-> {}]
  /\ pm = Idle
  /\ co = Idle
  /\ at = Idle
  /\ rn = Idle
  /\ vg = Idle
  /\ sl = Idle
  /\ cp = Idle
  /\ tc = Idle
  /\ ed = Idle
  /\ pl = Idle
  /\ gp = Idle
  /\ ex = Idle
  /\ cl = Idle

\* lines 413-446: one file of the walk
CodeRenameFile ==
  /\ cr.pc = "walk"
  /\ cr.idx <= Len(cr.files)
  /\ LET file == cr.files[cr.idx]
         content == UniversalNewlines(cr.disk[cr.idx])
         new_content == apply_code_patterns(cr.patterns, file.name, content)
     IN  IF code_file_is_ignored(cr.cfg, file)
         THEN cr' = [cr EXCEPT !.idx = cr.idx + 1]
         ELSE IF ~file.decodes
              THEN cr' = on_decode_error(cr)
              ELSE IF writes_back(content, new_content)
                   THEN cr' = [cr EXCEPT !.idx = cr.idx + 1,
                                         !.read = cr.read \cup {cr.idx},
                                         !.written = cr.written \cup {cr.idx},
                                         !.disk = [cr.disk EXCEPT ![cr.idx] = new_content]]
                   ELSE cr' = [cr EXCEPT !.idx = cr.idx + 1, !.read = cr.read \cup {cr.idx}]
  /\ UNCHANGED <<pm, co, at, rn, vg, sl, cp, tc, ed, pl, gp, ex, cl>>

CodeRenamesDone ==
  /\ cr.pc = "walk"
  /\ cr.idx = Len(cr.files) + 1
  /\ cr' = [cr EXCEPT !.pc = "done"]
  /\ UNCHANGED <<pm, co, at, rn, vg, sl, cp, tc, ed, pl, gp, ex, cl>>

NextCodeRenames == CodeRenameFile \/ CodeRenamesDone

SpecCodeRenames == InitCodeRenames /\ [][NextCodeRenames]_vars

\* C17: apply_code_renames writes a file only if the rename patterns changed
\* its content: a file whose content no pattern changes is not written and
\* keeps its stored content, and an ignored file is never opened for writing.
C17_WritesOnlyChangedFiles ==
  \A i \in DOMAIN cr.files :
    /\ i \in cr.written =>
         apply_code_patterns(cr.patterns, cr.files[i].name,
                             UniversalNewlines(cr.files[i].stored))
           # UniversalNewlines(cr.files[i].stored)
    /\ apply_code_patterns(cr.patterns, cr.files[i].name,
                           UniversalNewlines(cr.files[i].stored))
         = UniversalNewlines(cr.files[i].stored)
       => cr.disk[i] = cr.files[i].stored
    /\ code_file_is_ignored(cr.cfg, cr.files[i]) => i \notin cr.written

\* the file is one the walk opens and its content is not decodable text
IsFatalFile(i) == ~code_file_is_ignored(cr.cfg, cr.files[i]) /\ ~cr.files[i].decodes

\* C24: a file of the walk that is not ignored and not decodable is never skipped:
\* the walk never gets past it and never ends normally; it fails at that file, no
\* later file is read or written, and every file rewritten before the failure
\* keeps its rewritten content.
C24_DecodeFailureIsFatal ==
  /\ \A i \in DOMAIN cr.files : IsFatalFile(i) => (cr.idx <= i /\ cr.pc # "done")
  /\ \A i \in DOMAIN cr.files :
       (IsFatalFile(i) /\ cr.idx = i /\ i \in cr.read) => cr.pc = "failed"
  /\ cr.pc = "failed" =>
       /\ IsFatalFile(cr.idx)
       /\ \A j \in DOMAIN cr.files : j > cr.idx =>
            (j \notin cr.read /\ j \notin cr.written /\ cr.disk[j] = cr.files[j].stored)
       /\ \A j \in DOMAIN cr.files :
            (j < cr.idx /\ ~code_file_is_ignored(cr.cfg, cr.files[j])) =>
              /\ j \in cr.written
              /\ cr.disk[j] = apply_code_patterns(cr.patterns, cr.files[j].name,
                                UniversalNewlines(cr.files[j].stored))

C24_Witness ==
  /\ cr.pc = "failed"
  /\ cr.idx = 2
  /\ Len(cr.files) = 3
  /\ 1 \in cr.written
  /\ cr.disk[1] # cr.files[1].stored

(***************************************************************************)
(* slipstream.py: apply_path_renames, the walk that moves the files and    *)
(* removes the directories it leaves empty                                 *)
(*                                                                         *)
(* The tree is a set of directory paths and a set of file paths, all below *)
(* the walk root ".".  os.walk lists a directory when it reaches it, hands *)
(* the names to the loop body and afterwards descends into the listed      *)
(* subdirectories that still exist.                                        *)
(***************************************************************************)
\* os.listdir(folder)
entries_of(tree, folder) ==
  { p \in tree.dirs \cup tree.files : p # folder /\ dirname(p) = folder }

\* os.makedirs(folder, exist_ok=True)
RECURSIVE makedirs(_, _)
makedirs(dirs, folder) ==
  IF folder = <<>> \/ folder \in dirs THEN dirs
  ELSE makedirs(dirs \cup {folder}, dirname(folder))

\* os.path.relpath(os.path.join(root, d), os.getcwd())
relpath(path) == IF StartsWith(path, <<".", "/">>) THEN SubSeq(path, 3, Len(path)) ELSE path

\* lines 283-289: the file is skipped by an ignored type or name
path_file_is_ignored(cfg, file_name) ==
  \/ AnySearch(cfg.ignored_file_types, splitext_ext(file_name))
  \/ AnySearch(cfg.ignored_files, file_name)

\* lines 281-316: the loop over the files of one directory; git mv fails
\* for a file that is not tracked and for a destination that exists
RECURSIVE move_files(_, _, _, _)
move_files(tree, file_paths, cfg, patterns) ==
  IF file_paths = <<>> \/ tree.failed THEN tree
  ELSE LET file_path == Head(file_paths)
           new_path == apply_rename_patterns(patterns, file_path)
           made == [tree EXCEPT !.dirs = makedirs(tree.dirs, dirname(new_path))]
           mv_ok == file_path \in tree.tracked /\ new_path \notin tree.files
                    /\ new_path \notin tree.dirs
       IN  IF path_file_is_ignored(cfg, basename(file_path))
           THEN move_files(tree, Tail(file_paths), cfg, patterns)
           ELSE IF ~needs_move(file_path, new_path)
                THEN move_files(tree, Tail(file_paths), cfg, patterns)
                ELSE IF mv_ok
                     THEN move_files([made EXCEPT
                                        !.files = (made.files \ {file_path}) \cup {new_path},
                                        !.tracked = (made.tracked \ {file_path}) \cup {new_path}],
                                     Tail(file_paths), cfg, patterns)
                     ELSE IF file_path \notin tree.tracked
                          THEN move_files(made, Tail(file_paths), cfg, patterns)
                          ELSE [made EXCEPT !.failed = TRUE]

\* os.rmdir(folder): the walk root "." cannot be removed (OSError)
rmdir(tree, folder) ==
  IF folder = Dot \/ entries_of(tree, folder) # {}
  THEN [tree EXCEPT !.failed = TRUE, !.rmdir_calls = tree.rmdir_calls \cup {folder}]
  ELSE [tree EXCEPT !.dirs = tree.dirs \ {folder},
                    !.rmdir_calls = tree.rmdir_calls \cup {folder}]

\* lines 325-330: "while not os.listdir(parent_dir)"; os.listdir("") raises
RECURSIVE remove_empty_parents(_, _)
remove_empty_parents(tree, parent_dir) ==
  IF tree.failed THEN tree
  ELSE IF parent_dir = <<>>
       THEN [tree EXCEPT !.failed = TRUE, !.listed = tree.listed \cup {parent_dir}]
       ELSE IF entries_of(tree, parent_dir) # {}
            THEN [tree EXCEPT !.listed = tree.listed \cup {parent_dir}]
            ELSE remove_empty_parents(
                   rmdir([tree EXCEPT !.listed = tree.listed \cup {parent_dir}], parent_dir),
                   dirname(parent_dir))

\* lines 318-330: the cleanup after the files of root were moved
remove_if_empty(tree, root) ==
  IF tree.failed THEN tree
  ELSE LET seen == [tree EXCEPT !.listed = tree.listed \cup {root}]
       IN  IF entries_of(tree, root) # {} THEN seen
           ELSE remove_empty_parents(rmdir(seen, root), dirname(root))

CleanupDirInputs ==
  { S \in SUBSET { <<".", "/", "a">>, <<".", "/", "a", "/", "b">>, <<".", "/", "b">> } :
      <<".", "/", "a", "/", "b">> \in S => <<".", "/", "a">> \in S }

CleanupFileInputs(dirs) ==
  SUBSET ({ d \o <<"/", "f">> : d \in dirs \cup {Dot} } \cup { <<".", "/", "g">> })

CleanupPatternInputs ==
  { <<>>,
    << RenamePattern(<<"a">>, <<"b">>, <<>>) >>,
    << RenamePattern(<<"a">>, <<"c">>, <<>>) >>,
    << RenamePattern(<<"b">>, <<"c">>, <<>>) >>,
    << RenamePattern(<<"a">>, <<"b">>, <<>>), RenamePattern(<<"b">>, <<"c">>, <<>>) >> }

CleanupIgnoreInputs ==
  { [ignored_folders |-> <<>>, ignored_files |-> <<>>, ignored_file_types |-> <<>>],
    [ignored_folders |-> << <<"b">> >>, ignored_files |-> <<>>, ignored_file_types |-> <<>>],
    [ignored_folders |-> <<>>, ignored_files |-> << <<"g">> >>, ignored_file_types |-> <<>>] }

InitCleanup ==
  /\ \E dirs \in CleanupDirInputs : \E files \in CleanupFileInputs(dirs) :
     \E patterns \in CleanupPatternInputs : \E cfg \in CleanupIgnoreInputs :
     \E untracked \in { {}, { <<".", "/", "g">> } \cap files, files } :
       ed = [pc |-> "walk", cfg |-> cfg, patterns |-> patterns, stack |-> <<Dot>>,
             tree |-> [dirs |-> dirs \cup {Dot}, files |-> files, tracked |-> files \ untracked,
                       failed |-> FALSE, rmdir_calls |-> {}, listed |-> {}]]
  /\ pm = Idle
  /\ co = Idle
  /\ at = Idle
  /\ rn = Idle
  /\ vg = Idle
  /\ sl = Idle
  /\ cp = Idle
  /\ tc = Idle
  /\ cr = Idle
  /\ pl = Idle
  /\ gp = Idle
  /\ ex = Idle
  /\ cl = Idle

\* lines 271-330: one directory of the walk
VisitRoot ==
  /\ ed.pc = "walk"
  /\ ed.stack # <<>>
  /\ LET root == Head(ed.stack)
         rest == Tail(ed.stack)
         subdirs == { d \in ed.tree.dirs :
                        /\ d # root /\ dirname(d) = root
                        /\ ~AnySearch(ed.cfg.ignored_folders, relpath(d)) }
         files == { f \in ed.tree.files : dirname(f) = root }
     IN  IF root \notin ed.tree.dirs \/ folder_is_ignored(ed.cfg, root)
         THEN ed' = [ed EXCEPT !.stack = rest]
         ELSE \E file_order \in OrderingsOf(files) : \E dir_order \in OrderingsOf(subdirs) :
              \E after \in { remove_if_empty(move_files(ed.tree, file_order, ed.cfg, ed.patterns),
                                             root) } :
                ed' = [ed EXCEPT !.tree = after,
                                 !.pc = IF after.failed THEN "failed" ELSE "walk",
                                 !.stack = dir_order \o rest]
  /\ UNCHANGED <<pm, co, at, rn, vg, sl, cp, tc, cr, pl, gp, ex, cl>>

WalkEnds ==
  /\ ed.pc = "walk"
  /\ ed.stack = <<>>
  /\ ed' = [ed EXCEPT !.pc = "done"]
  /\ UNCHANGED <<pm, co, at, rn, vg, sl, cp, tc, cr, pl, gp, ex, cl>>

NextCleanup == VisitRoot \/ WalkEnds

SpecCleanup == InitCleanup /\ [][NextCleanup]_vars

\* C18: the cleanup removes a directory only when it is empty and stops at
\* the walk root: os.rmdir is never called on the walk root, no directory
\* above the walk root is listed or removed, and the walk root stays.
C18_CleanupStopsAtWalkRoot ==
  /\ Dot \notin ed.tree.rmdir_calls
  /\ \A d \in ed.tree.rmdir_calls \cup ed.tree.listed : StartsWith(d, Dot)
  /\ Dot \in ed.tree.dirs
  /\ \A d \in ed.tree.rmdir_calls : d \notin ed.tree.dirs

(***************************************************************************)
(* slipstream.py: apply_git_patches and revert_git_patches                 *)
(*                                                                         *)
(* A run of the pipeline with --apply-patches: the patch-apply stage, the  *)
(* lint, format and shell stages between, and the patch-revert stage.  The *)
(* patches are the entries of config["patches"] in declared order; the     *)
(* file system is the set of depends_on paths that exist.  The exit status *)
(* of every git apply is chosen by the environment.                        *)
(***************************************************************************)
MaxPatchEntries == 2

\* sem_version of the run
RunVersion == <<1, 30, 0>>

DependsOnPaths == { <<"x">> }

PatchGateInputs ==
  { [min |-> None, max |-> None],
    [min |-> Some(VersionText(<<2, 29, 0>>)), max |-> None],
    [min |-> None, max |-> Some(VersionText(<<1, 31, 0>>))],
    [min |-> Some(<<Num(1), Chr("."), Num(30)>>), max |-> None] }

\* an entry of config["patches"]: path, the version bounds, revert and depends_on
PatchConfigInputs ==
  { [other_keys |-> TRUE, min_sem_version |-> g.min, max_sem_version |-> g.max,
     revert |-> r, depends_on |-> d] :
      g \in PatchGateInputs, r \in BOOLEAN,
      d \in {None} \cup { Some(x) : x \in DependsOnPaths } }

\* one iteration of the loop of apply_git_patches, up to the git call
apply_decision(sem_version, patch_config, fs) ==
  IF skip_entry_by_version(sem_version, patch_config).raised THEN "raise"
  ELSE IF skip_entry_by_version(sem_version, patch_config).skip THEN "skip"
  ELSE IF patch_config.depends_on # None /\ patch_config.depends_on[1] \notin fs THEN "skip"
  ELSE "git"

\* one iteration of the loop of revert_git_patches, up to the git call
revert_decision(sem_version, patch_config, fs) ==
  IF ~patch_config.revert THEN "skip"
  ELSE IF skip_entry_by_version(sem_version, patch_config).raised THEN "raise"
  ELSE IF skip_entry_by_version(sem_version, patch_config).skip THEN "skip"
  ELSE IF patch_config.depends_on # None /\ patch_config.depends_on[1] \notin fs THEN "skip"
  ELSE "git"

InitGitPatches ==
  /\ \E patches \in StringsUpTo(PatchConfigInputs, MaxPatchEntries) \ {<<>>} :
     \E fs \in SUBSET DependsOnPaths :
       gp = [pc |-> "apply", patches |-> patches, fs |-> fs, idx |-> 1,
             applied |-> <<>>, reverted |-> <<>>]
  /\ pm = Idle
  /\ co = Idle
  /\ at = Idle
  /\ rn = Idle
  /\ vg = Idle
  /\ sl = Idle
  /\ cp = Idle
  /\ tc = Idle
  /\ cr = Idle
  /\ ed = Idle
  /\ pl = Idle
  /\ ex = Idle
  /\ cl = Idle

\* apply_git_patches: one patch of the loop; git apply -C2 runs with check=True
ApplyPatch ==
  /\ gp.pc = "apply"
  /\ gp.idx <= Len(gp.patches)
  /\ \E decision \in { apply_decision(RunVersion, gp.patches[gp.idx], gp.fs) } :
       \/ /\ decision = "skip"
          /\ gp' = [gp EXCEPT !.idx = gp.idx + 1]
       \/ /\ decision = "raise"
          /\ gp' = [gp EXCEPT !.pc = "failed"]
       \/ /\ decision = "git"
          /\ \E returncode \in {0, 1} :
               gp' = IF returncode = 0
                     THEN [gp EXCEPT !.idx = gp.idx + 1, !.applied = Append(@, gp.idx)]
                     ELSE [gp EXCEPT !.pc = "failed"]
  /\ UNCHANGED <<pm, co, at, rn, vg, sl, cp, tc, cr, ed, pl, ex, cl>>

\* the stage blocks between patch-apply and patch-revert: their commands may create
\* or remove any path of the working tree
StagesBetween ==
  /\ gp.pc = "apply"
  /\ gp.idx > Len(gp.patches)
  /\ \E fs \in SUBSET DependsOnPaths :
       gp' = [gp EXCEPT !.pc = "revert", !.idx = 1, !.fs = fs]
  /\ UNCHANGED <<pm, co, at, rn, vg, sl, cp, tc, cr, ed, pl, ex, cl>>

\* revert_git_patches: one patch of the loop; git apply -R -C2 runs with check=True
RevertPatch ==
  /\ gp.pc = "revert"
  /\ gp.idx <= Len(gp.patches)
  /\ \E decision \in { revert_decision(RunVersion, gp.patches[gp.idx], gp.fs) } :
       \/ /\ decision = "skip"
          /\ gp' = [gp EXCEPT !.idx = gp.idx + 1]
       \/ /\ decision = "raise"
          /\ gp' = [gp EXCEPT !.pc = "failed"]
       \/ /\ decision = "git"
          /\ \E returncode \in {0, 1} :
               gp' = IF returncode = 0
                     THEN [gp EXCEPT !.idx = gp.idx + 1, !.reverted = Append(@, gp.idx)]
                     ELSE [gp EXCEPT !.pc = "failed"]
  /\ UNCHANGED <<pm, co, at, rn, vg, sl, cp, tc, cr, ed, pl, ex, cl>>

RevertDone ==
  /\ gp.pc = "revert"
  /\ gp.idx > Len(gp.patches)
  /\ gp' = [gp EXCEPT !.pc = "done"]
  /\ UNCHANGED <<pm, co, at, rn, vg, sl, cp, tc, cr, ed, pl, ex, cl>>

NextGitPatches == ApplyPatch \/ StagesBetween \/ RevertPatch \/ RevertDone

SpecGitPatches == InitGitPatches /\ [][NextGitPatches]_vars

\* C27: every patch the patch-revert stage reverse-applies was applied by the
\* patch-apply stage of the same run, whatever the stages between did to the
\* depends_on paths, and the patches are reverted in declared order.
C27_RevertOnlyApplied ==
  /\ \A i \in 1..Len(gp.reverted) :
       \E j \in 1..Len(gp.applied) : gp.applied[j] = gp.reverted[i]
  /\ \A i, j \in 1..Len(gp.reverted) : i < j => gp.reverted[i] < gp.reverted[j]

(***************************************************************************)
(* slipstream.py: execute_in_subfolders                                    *)
(*                                                                         *)
(* A path is the sequence of its components, the first being "/" for an    *)
(* absolute path.  root_folder is absolute, as __main__ passes it          *)
(* (os.path.abspath).  The per-subfolder function is the environment: it   *)
(* may change the working directory, and it returns or raises.             *)
(***************************************************************************)
RootFolder == <<"/", "t">>

ElsewhereFolder == <<"/", "w">>

SubfolderNames == { "main", "ext" }

FileNames == { "f" }

\* os.chdir(path) from the working directory cwd: the new working directory
chdir(cwd, path) == IF Head(path) = "/" THEN path ELSE cwd \o path

\* os.path.isdir(item) from the working directory cwd
isdir(entries, cwd, item) ==
  \E name \in entries \cap SubfolderNames : chdir(cwd, <<item>>) = RootFolder \o <<name>>

\* "filter is None or item in filter"
passes_filter(filter, item) == filter = None \/ item \in filter[1]

\* the inner "finally: os.chdir(root_folder)" / leaving the working directory as
\* the function left it
after_function_stay(cwd, root_folder) == cwd

after_function(cwd, root_folder) == chdir(cwd, root_folder)

\* the outer "finally: os.chdir(current_folder)"
at_exit(cwd, current_folder) == chdir(cwd, current_folder)

\* what one call of the function does: the directory it changes to, if any, and
\* whether it raises
FunctionInputs ==
  [chdir_to : { None, Some(ElsewhereFolder), Some(<<"..">> ) }, raises : BOOLEAN]

\* the working directory after the function ran in cwd
function_cwd(cwd, behaviour) ==
  IF behaviour.chdir_to = None THEN cwd
  ELSE IF behaviour.chdir_to[1] = <<"..">> THEN SubSeq(cwd, 1, Len(cwd) - 1)
  ELSE chdir(cwd, behaviour.chdir_to[1])

InitSubfolders ==
  /\ \E entries \in SUBSET (SubfolderNames \cup FileNames) :
     \E filter \in { None, Some({"main"}), Some({"f", "ext"}) } :
     \E cwd \in { RootFolder, ElsewhereFolder } :
       ex = [pc |-> "start", entries |-> entries, filter |-> filter, cwd |-> cwd,
             entry_cwd |-> cwd, current_folder |-> None, items |-> <<>>, idx |-> 1,
             calls |-> <<>>]
  /\ pm = Idle
  /\ co = Idle
  /\ at = Idle
  /\ rn = Idle
  /\ vg = Idle
  /\ sl = Idle
  /\ cp = Idle
  /\ tc = Idle
  /\ cr = Idle
  /\ ed = Idle
  /\ pl = Idle
  /\ gp = Idle
  /\ cl = Idle

\* lines 26-33: remember the working directory, enter root_folder, list it
EnterRoot ==
  /\ ex.pc = "start"
  /\ \E items \in ListingsOf(ex.entries) :
       ex' = [ex EXCEPT !.pc = "loop", !.current_folder = Some(ex.cwd),
                        !.cwd = chdir(ex.cwd, RootFolder), !.items = items]
  /\ UNCHANGED <<pm, co, at, rn, vg, sl, cp, tc, cr, ed, pl, gp, cl>>

\* lines 33-43: one item of the listing, with both "finally" blocks when the
\* function raises
VisitItem ==
  /\ ex.pc = "loop"
  /\ ex.idx <= Len(ex.items)
  /\ LET item == ex.items[ex.idx]
     IN  IF isdir(ex.entries, ex.cwd, item) /\ passes_filter(ex.filter, item)
         THEN \E behaviour \in FunctionInputs :
                LET entered == chdir(ex.cwd, <<item>>)
                    left == after_function(function_cwd(entered, behaviour), RootFolder)
                    called == Append(ex.calls,
                                [item |-> item, cwd |-> entered,
                                 left_in |-> function_cwd(entered, behaviour)])
                IN  IF behaviour.raises
                    THEN ex' = [ex EXCEPT !.pc = "raised", !.calls = called,
                                          !.cwd = at_exit(left, ex.current_folder[1])]
                    ELSE ex' = [ex EXCEPT !.idx = ex.idx + 1, !.calls = called,
                                          !.cwd = left]
         ELSE ex' = [ex EXCEPT !.idx = ex.idx + 1]
  /\ UNCHANGED <<pm, co, at, rn, vg, sl, cp, tc, cr, ed, pl, gp, cl>>

\* lines 41-43: the listing is exhausted, the outer "finally" runs
LeaveRoot ==
  /\ ex.pc = "loop"
  /\ ex.idx > Len(ex.items)
  /\ ex' = [ex EXCEPT !.pc = "returned", !.cwd = at_exit(ex.cwd, ex.current_folder[1])]
  /\ UNCHANGED <<pm, co, at, rn, vg, sl, cp, tc, cr, ed, pl, gp, cl>>

NextSubfolders == EnterRoot \/ VisitItem \/ LeaveRoot

SpecSubfolders == InitSubfolders /\ [][NextSubfolders]_vars

\* the listed names that are subdirectories of root_folder and pass the filter, in
\* listing order
SelectedItems ==
  SelectSeq(ex.items, LAMBDA item : item \in SubfolderNames /\ passes_filter(ex.filter, item))

\* C28: execute_in_subfolders leaves the working directory as it found it, whether
\* the function returned, raised or changed the working directory itself; it calls
\* the function once for every immediate subdirectory that passes the filter, in
\* that subdirectory, and a raise ends the loop.
C28_WorkingDirectoryRestored ==
  /\ ex.pc \in {"returned", "raised"} => ex.cwd = ex.entry_cwd
  /\ ex.pc \in {"loop", "returned", "raised"} =>
       /\ Len(ex.calls) <= Len(SelectedItems)
       /\ \A i \in 1..Len(ex.calls) :
            /\ ex.calls[i].item = SelectedItems[i]
            /\ ex.calls[i].cwd = RootFolder \o <<SelectedItems[i]>>
  /\ ex.pc = "returned" => Len(ex.calls) = Len(SelectedItems)
  /\ ex.pc = "raised" => ex.calls # <<>>

C28_Witness ==
  /\ ex.pc = "raised"
  /\ ex.entry_cwd = ElsewhereFolder
  /\ Len(ex.items) = 3
  /\ Len(ex.calls) = 2
  /\ ex.calls[1].left_in = ElsewhereFolder
  /\ ex.calls[2].left_in = RootFolder

(***************************************************************************)
(* slipstream.py: delete_crates, the rewrite of Cargo.lock                 *)
(*                                                                         *)
(* The file is the list of its lines as readlines() gives them, each a     *)
(* string with its line end.  The rewrite reads every line once and writes *)
(* the kept ones.                                                          *)
(***************************************************************************)
MaxLockLines == 4

Whitespace == { " ", "\n", "\t", "\r" }

\* str.strip()
RECURSIVE LStrip(_)
LStrip(s) == IF s # <<>> /\ Head(s) \in Whitespace THEN LStrip(Tail(s)) ELSE s

RECURSIVE RStrip(_)
RStrip(s) ==
  IF s # <<>> /\ s[Len(s)] \in Whitespace THEN RStrip(SubSeq(s, 1, Len(s) - 1)) ELSE s

Strip(s) == LStrip(RStrip(s))

PackageHeader == <<"[", "[", "p", "a", "c", "k", "a", "g", "e", "]", "]">>

NamePrefix == <<"n", "a", "m", "e", " ", "=">>

HeaderLine == PackageHeader \o <<"\n">>

NameLine(crate) == NamePrefix \o <<" ", "\"">> \o crate \o <<"\"", "\n">>

VersionLine == <<"v", "e", "r", "s", "i", "o", "n", " ", "=", " ", "\"", "1", "\"", "\n">>

BlankLine == <<"\n">>

\* the loop body of the Cargo.lock rewrite for one line: the flags and the lines
\* written so far
filter_lock_line(crates, st, line) ==
  IF Strip(line) = PackageHeader
  THEN [st EXCEPT !.in_package_section = TRUE, !.package_line_added = FALSE]
  ELSE
    LET named == /\ st.in_package_section
                 /\ StartsWith(Strip(line), NamePrefix)
                 /\ \E i \in 1..Len(crates) : Contains(line, crates[i])
        skip_section == st.skip_section \/ named
    IN  IF st.in_package_section /\ Strip(line) = <<>>
        THEN [st EXCEPT !.in_package_section = FALSE, !.package_line_added = TRUE,
                        !.skip_section = FALSE, !.written = Append(@, line)]
        ELSE IF ~skip_section
             THEN [st EXCEPT !.skip_section = skip_section, !.package_line_added = TRUE,
                     !.written = IF st.package_line_added THEN Append(@, line)
                                 ELSE @ \o <<HeaderLine, line>>]
             ELSE [st EXCEPT !.skip_section = skip_section]

LockLineInputs ==
  { HeaderLine, NameLine(<<"b">>), NameLine(<<"b", "c">>), NameLine(<<"c">>),
    VersionLine, BlankLine }

\* the crates to delete; their names do not occur in the text "name ="
CrateListInputs == { << <<"b">> >>, << <<"c">> >> }

InitCargoLock ==
  /\ \E content \in StringsUpTo(LockLineInputs, MaxLockLines), crates \in CrateListInputs :
       cl = [pc |-> "filter", crates |-> crates, content |-> content, idx |-> 1,
             in_package_section |-> FALSE, package_line_added |-> TRUE,
             skip_section |-> FALSE, written |-> <<>>]
  /\ pm = Idle
  /\ co = Idle
  /\ at = Idle
  /\ rn = Idle
  /\ vg = Idle
  /\ sl = Idle
  /\ cp = Idle
  /\ tc = Idle
  /\ cr = Idle
  /\ ed = Idle
  /\ pl = Idle
  /\ gp = Idle
  /\ ex = Idle

\* one iteration of "for line in cargo_lock_content"
FilterLockLine ==
  /\ cl.pc = "filter"
  /\ cl.idx <= Len(cl.content)
  /\ cl' = [filter_lock_line(cl.crates, cl, cl.content[cl.idx]) EXCEPT !.idx = cl.idx + 1]
  /\ UNCHANGED <<pm, co, at, rn, vg, sl, cp, tc, cr, ed, pl, gp, ex>>

\* the loop ends and Cargo.lock is closed
CloseLock ==
  /\ cl.pc = "filter"
  /\ cl.idx > Len(cl.content)
  /\ cl' = [cl EXCEPT !.pc = "done"]
  /\ UNCHANGED <<pm, co, at, rn, vg, sl, cp, tc, cr, ed, pl, gp, ex>>

NextCargoLock == FilterLockLine \/ CloseLock

SpecCargoLock == InitCargoLock /\ [][NextCargoLock]_vars

IsHeaderLine(line) == Strip(line) = PackageHeader

\* line i belongs to the [[package]] section whose header is line j: the section
\* runs from its header up to the next blank line or the next header
InSectionOf(content, j, i) ==
  /\ j <= i
  /\ IsHeaderLine(content[j])
  /\ \A k \in (j + 1)..i : ~IsHeaderLine(content[k]) /\ Strip(content[k]) # <<>>

\* the name line names one of the crates
NamesDeletedCrate(crates, line) ==
  \E c \in 1..Len(crates) : Strip(line) = Strip(NameLine(crates[c]))

\* line i is part of a section that names a deleted crate
InDroppedSection(crates, content, i) ==
  \E j \in 1..i :
    /\ InSectionOf(content, j, i)
    /\ \E n \in j..Len(content) :
         InSectionOf(content, j, n) /\ NamesDeletedCrate(crates, content[n])

\* the lines of the file outside the dropped sections, in order
RECURSIVE KeptLines(_, _, _)
KeptLines(crates, content, i) ==
  IF i > Len(content) THEN <<>>
  ELSE IF InDroppedSection(crates, content, i)
       THEN KeptLines(crates, content, i + 1)
       ELSE <<content[i]>> \o KeptLines(crates, content, i + 1)

\* C29: the rewritten Cargo.lock is the file without the [[package]] sections whose
\* name line names a deleted crate: every other line, the headers and lines of all
\* other sections included, is kept unchanged and in order, and a dropped section
\* does not make the next section drop.
C29_LockSectionsDropped ==
  cl.pc = "done" => cl.written = KeptLines(cl.crates, cl.content, 1)

(***************************************************************************)
(* All components together.                                                *)
(***************************************************************************)
Init ==
  \/ InitPattern
  \/ InitOwners
  \/ InitAttribution
  \/ InitMappedAttribution
  \/ InitRename
  \/ InitVersion
  \/ InitSymlinks
  \/ InitPatches
  \/ InitPipeline
  \/ InitTracking
  \/ InitCodeRenames
  \/ InitCleanup
  \/ InitGitPatches
  \/ InitSubfolders
  \/ InitCargoLock

Next ==
  \/ NextPattern
  \/ NextOwners
  \/ NextAttribution
  \/ NextRename
  \/ NextVersion
  \/ NextSymlinks
  \/ NextPatches
  \/ NextPipeline
  \/ NextTracking
  \/ NextCodeRenames
  \/ NextCleanup
  \/ NextGitPatches
  \/ NextSubfolders
  \/ NextCargoLock

Spec == Init /\ [][Next]_vars

====
